---- MODULE Spec2Model ----
(***************************************************************************)
(* A model of the data-synchronisation core of scratch-code: the Storage   *)
(* Gateway (ScratchFileSystemProvider), its debounced watcher, the Tree    *)
(* Projection (ScratchTreeProvider / ScratchFolder) and the Search Index   *)
(* (SearchIndexProvider).                                                  *)
(*                                                                         *)
(* A path is a sequence of segments: the string "/a/b" is <<"a", "b">>,    *)
(* and "/" is << >>.  A Uri is a record [scheme, path].  The physical      *)
(* storage is the function disk from the physical paths that exist to      *)
(* their entries.                                                          *)
(***************************************************************************)
EXTENDS Integers, Sequences, FiniteSets, TLC

VARIABLES
  disk,        \* physical storage: physical path -> [type, content]
  calls,       \* Storage Gateway calls: call id -> call record
  delivered,   \* batches handed to the subscribers of onDidChangeFile, in order
  notes,       \* watcher: native notifications observed so far
  pendingStat, \* watcher: notifications whose fs.promises.stat is in flight
  items,       \* batch(): the buffered items
  timeoutId,   \* batch(): the pending timeout
  watching,    \* watcher: "off", "on" or "disposed"
  now,         \* the clock, in ticks
  nodes,       \* tree: the entries of every folder's _children map
  loaded,      \* tree: uri paths of the folders whose _children is defined
  queue,       \* tree/index: change batches fired and not yet handled
  treeLog,     \* tree: what the handler call that has just returned did
  loading,     \* tree: getChildren calls whose listing has not been applied
  got,         \* tree: what the getAll call that has just returned gave
  pinned,      \* pin store: the store, the uri strings of the pinned documents
  saving,      \* pin store: a save of the store has been asked for and not made
  sortOrder,   \* tree: the sort order of the documents
  shown,       \* tree: what the last getChildren call returned
  index,       \* search index: document id -> content
  inflight,    \* search index: updateFile calls whose read has not been applied
  lastEvent,   \* search index: the last change event handled, per document id
  snapshot,    \* search index: the saved snapshot of the index
  failed,      \* search index: the update calls that were rejected, with the error
  awaited,     \* search index: every operation so far was made when the index work
               \* of the earlier events was done
  resetting,   \* search index: the reset call, if one has been made
  indexLoad,   \* search index: the load call made by the constructor
  pinLoad,     \* pin store: the promise of the load call made by the constructor
  storeFile,   \* pin store: the backing file, as text
  pinSaves,    \* pin store: the save calls that have not written yet
  pinLog,      \* pin store: what its two event emitters have fired, in order
  ops          \* number of environment operations performed so far

vars == <<disk, calls, delivered, notes, pendingStat, items, timeoutId, watching, now,
          nodes, loaded, queue, treeLog, loading, got, pinned, saving, sortOrder, shown,
          index, inflight, lastEvent, snapshot, failed, awaited, resetting, ops,
          indexLoad, pinLoad, storeFile, pinSaves, pinLog>>

fsVars    == <<calls>>
watchVars == <<notes, pendingStat, items, timeoutId, watching, now>>
viewVars  == <<saving, sortOrder, shown>>
treeVars  == <<nodes, loaded, treeLog, loading, got, pinned, viewVars>>
indexRest == <<failed, resetting>>
storeVars == <<pinLoad, storeFile, pinSaves, pinLog>>
loadVars  == <<indexLoad, storeVars>>
indexVars == <<index, inflight, lastEvent, snapshot, awaited, indexRest>>

\* What the Storage Gateway calls leave alone.
fsRest == <<watchVars, treeVars, indexVars, queue, ops, loadVars>>

Undefined == "undefined"

\* timeoutId: undefined, or a timeout due at the given tick.
NoTimeout == [armed |-> FALSE, due |-> 0]
Timeout(due) == [armed |-> TRUE, due |-> due]

----------------------------------------------------------------------------
(* Bounds *)

MaxCalls == 2
MaxNotes == 2
MaxTime == 3
MaxOps == 3
MaxBatch == 2
MaxLoads == 1

----------------------------------------------------------------------------
(* Paths and the Path Translator *)

SCHEME == "scratch"

\* The configured root directory (scratchDir), as a physical path.
ScratchDir == <<"s">>

MkUri(scheme, path) == [scheme |-> scheme, path |-> path]

ROOT == MkUri(SCHEME, << >>)

IsPrefix(p, q) == Len(p) <= Len(q) /\ SubSeq(q, 1, Len(p)) = p

\* Every prefix of p, p and << >> included.
Prefixes(p) == {SubSeq(p, 1, n) : n \in 0..Len(p)}

Parent(p) == SubSeq(p, 1, Len(p) - 1)

Last(p) == p[Len(p)]

\* path.posix.normalize of an absolute path: ".." removes the segment before
\* it, and is dropped at the root.
RECURSIVE NormalizeFrom(_, _)
NormalizeFrom(acc, rest) ==
  IF rest = << >> THEN acc
  ELSE IF Head(rest) = ".."
       THEN NormalizeFrom(IF acc = << >> THEN acc ELSE Parent(acc), Tail(rest))
       ELSE NormalizeFrom(Append(acc, Head(rest)), Tail(rest))

Normalize(p) == NormalizeFrom(<< >>, p)

\* Uri.joinPath(base, ...segments): joins and normalizes the path.
joinPath(base, segs) == Normalize(base \o segs)

InvalidScheme == "InvalidScheme"

\* toFilesystemUri(scratchDir, uri): the physical path, or the Error it throws
\* for a foreign scheme.
toFilesystemUri(scratchDir, uri) ==
  IF uri.scheme # SCHEME THEN [error |-> TRUE, path |-> << >>]
  ELSE [error |-> FALSE, path |-> joinPath(scratchDir, uri.path)]

----------------------------------------------------------------------------
(* The host's file-system primitives (vscode.workspace.fs), on disk *)

File == "file"
Directory == "dir"

DirEntry == [type |-> Directory, content |-> 0]
FileEntry(content) == [type |-> File, content |-> content]

Exists(d, p) == p \in DOMAIN d

isFile(d, p) == Exists(d, p) /\ d[p].type = File
isDir(d, p) == Exists(d, p) /\ d[p].type = Directory

ChildrenOf(d, p) == {q \in DOMAIN d : Len(q) = Len(p) + 1 /\ IsPrefix(p, q)}

\* Some proper ancestor of p exists and is a file: no entry can be made at p.
BlockedByFile(d, p) == \E q \in Prefixes(p) : q # p /\ isFile(d, q)

MkdirP(d, p) ==
  [q \in DOMAIN d \cup Prefixes(p) |-> IF q \in DOMAIN d THEN d[q] ELSE DirEntry]

WriteDisk(d, p, content) ==
  [q \in DOMAIN d \cup Prefixes(p) |->
     IF q = p THEN FileEntry(content)
     ELSE IF q \in DOMAIN d THEN d[q] ELSE DirEntry]

RemoveTree(d, p) == [q \in {r \in DOMAIN d : ~IsPrefix(p, r)} |-> d[q]]

Rebase(from, to, q) == to \o SubSeq(q, Len(from) + 1, Len(q))

MoveTree(d, from, to) ==
  LET moved == {q \in DOMAIN d : IsPrefix(from, q)}
      kept == {q \in DOMAIN d : ~IsPrefix(from, q) /\ ~IsPrefix(to, q)}
      made == MkdirP([q \in kept |-> d[q]], Parent(to))
  IN [q \in DOMAIN made \cup {Rebase(from, to, m) : m \in moved} |->
        IF \E m \in moved : Rebase(from, to, m) = q
        THEN d[CHOOSE m \in moved : Rebase(from, to, m) = q]
        ELSE made[q]]

EmptyDisk == [q \in Prefixes(ScratchDir) |-> DirEntry]

----------------------------------------------------------------------------
(* Storage Gateway: ScratchFileSystemProvider *)

Created == "Created"
Changed == "Changed"
Deleted == "Deleted"

CallIds == 1..MaxCalls

FsSchemes == {SCHEME, "file"}
FsPaths == {<<"a">>, <<"..", "a">>}
FsUris == {MkUri(SCHEME, p) : p \in FsPaths} \cup {MkUri("file", <<"a">>)}

\* A call record.  op, uri, to, create, overwrite: the call and its arguments
\* (overwrite also holds the recursive option of delete).  pc: where the call
\* is.  event: the kind writeFile decided on.  result: "ok" or the error.
\* The rest is bookkeeping: phys, the physical paths handed to the host;
\* seen, what the stat of writeFile found; existed, whether the target
\* existed when the physical write took effect; wrote, whether the physical
\* step succeeded; clean, FALSE once another physical change came between
\* the stat and the write; after, the calls that had returned when this one
\* was made.
IdleCall ==
  [op |-> "none", uri |-> ROOT, to |-> ROOT, create |-> FALSE, overwrite |-> FALSE,
   pc |-> "idle", event |-> "none", result |-> "none", phys |-> {},
   seen |-> "none", existed |-> FALSE, clean |-> TRUE, wrote |-> FALSE,
   after |-> {}]

NewCall(op, uri, to, create, overwrite) ==
  [IdleCall EXCEPT !.op = op, !.uri = uri, !.to = to, !.create = create,
                   !.overwrite = overwrite,
                   !.after = {k \in CallIds : calls[k].pc = "done"}]

CanStart(c) == calls[c].pc = "idle" /\ (IF c = 1 THEN TRUE ELSE calls[c - 1].pc # "idle")

Related(p, q) == IsPrefix(p, q) \/ IsPrefix(q, p)

\* A physical change at the paths ps reaches every other writeFile call that
\* has taken its stat and not yet written: its stat result may be stale.
Touch(cs, c, ps) ==
  [k \in DOMAIN cs |->
     IF k # c /\ cs[k].pc = "write"
        /\ \E p \in ps : \E t \in cs[k].phys : Related(p, t)
     THEN [cs[k] EXCEPT !.clean = FALSE]
     ELSE cs[k]]

Finish(call, result) == [call EXCEPT !.pc = "done", !.result = result]

\* writeFile, up to the call of this.stat(uri): toFilesystemUri throws for a
\* foreign scheme, otherwise the stat request is on its way to the host.
writeFileCall(call) ==
  LET fsUri == toFilesystemUri(ScratchDir, call.uri)
  IN IF fsUri.error THEN Finish(call, InvalidScheme)
     ELSE [call EXCEPT !.pc = "stat", !.phys = {fsUri.path}]

writeFile(c) ==
  /\ CanStart(c)
  /\ \E uri \in FsUris, create \in BOOLEAN, overwrite \in BOOLEAN :
       calls' = [calls EXCEPT
                   ![c] = writeFileCall(NewCall("writeFile", uri, uri, create, overwrite))]
  /\ UNCHANGED <<disk, delivered, fsRest>>

\* writeFileOnStat with the kind taken from the create option.
writeFileOnStatKindByOption(call, d) ==
  LET phys == toFilesystemUri(ScratchDir, call.uri).path
  IN IF Exists(d, phys)
     THEN IF ~call.overwrite THEN Finish(call, "FileExists")
          ELSE IF ~isFile(d, phys) THEN Finish(call, "FileIsADirectory")
          ELSE [call EXCEPT !.pc = "write",
                            !.event = IF call.create THEN Created ELSE Changed]
     ELSE IF call.create
          THEN [call EXCEPT !.pc = "write", !.event = Created]
          ELSE Finish(call, "FileNotFound")

\* writeFileOnStat without the overwrite check.
writeFileOnStatNoOverwriteCheck(call, d) ==
  LET phys == toFilesystemUri(ScratchDir, call.uri).path
  IN IF Exists(d, phys)
     THEN IF ~isFile(d, phys) THEN Finish(call, "FileIsADirectory")
          ELSE [call EXCEPT !.pc = "write", !.event = Changed]
     ELSE IF call.create
          THEN [call EXCEPT !.pc = "write", !.event = Created]
          ELSE Finish(call, "FileNotFound")

\* The two handlers of the stat promise: the event kind is decided here.
writeFileOnStat(call, d) ==
  LET phys == toFilesystemUri(ScratchDir, call.uri).path
  IN IF Exists(d, phys)
     THEN IF ~call.overwrite THEN Finish(call, "FileExists")
          ELSE IF ~isFile(d, phys) THEN Finish(call, "FileIsADirectory")
          ELSE [call EXCEPT !.pc = "write", !.event = Changed]
     ELSE IF call.create
          THEN [call EXCEPT !.pc = "write", !.event = Created]
          ELSE Finish(call, "FileNotFound")

writeFileStat(c) ==
  /\ calls[c].pc = "stat"
  /\ LET phys == toFilesystemUri(ScratchDir, calls[c].uri).path
     IN calls' = [calls EXCEPT
                    ![c] = [writeFileOnStat(calls[c], disk) EXCEPT
                              !.seen = IF Exists(disk, phys) THEN "exists" ELSE "absent"]]
  /\ UNCHANGED <<disk, delivered, fsRest>>

\* vscode.workspace.fs.writeFile at the host: it fails on a directory and
\* under a file, otherwise it writes (making the parent folders).
writeFileWrite(c) ==
  /\ calls[c].pc = "write"
  /\ LET phys == toFilesystemUri(ScratchDir, calls[c].uri).path
     IN IF isDir(disk, phys) \/ BlockedByFile(disk, phys)
        THEN /\ calls' = [calls EXCEPT ![c] = Finish(calls[c], "FileIsADirectory")]
             /\ UNCHANGED disk
        ELSE /\ disk' = WriteDisk(disk, phys, c)
             /\ calls' = Touch([calls EXCEPT ![c].pc = "fire",
                                             ![c].wrote = TRUE,
                                             ![c].existed = Exists(disk, phys)],
                               c, {phys})
  /\ UNCHANGED <<delivered, fsRest>>

\* A change event.  by is bookkeeping: the Storage Gateway call that fired it,
\* or the native notification it was made from.
Event(type, uri, by) == [type |-> type, uri |-> uri, by |-> by]

ByCall(c) == <<"call", c>>
ByNote(n) == <<"note", n>>

\* .then(() => this._onDidChangeFile.fire([event])): the batch fired.
writeFileEvents(call, c) == <<Event(call.event, call.uri, ByCall(c))>>

writeFileFire(c) ==
  /\ calls[c].pc = "fire"
  /\ delivered' = Append(delivered, writeFileEvents(calls[c], c))
  /\ calls' = [calls EXCEPT ![c] = Finish(calls[c], "ok")]
  /\ UNCHANGED <<disk, fsRest>>

hostDeleteIgnoresRecursive(d, phys, recursive) ==
  IF ~Exists(d, phys) THEN [disk |-> d, result |-> "FileNotFound"]
  ELSE [disk |-> RemoveTree(d, phys), result |-> "ok"]

\* vscode.workspace.fs.delete(uri, {recursive}): a folder that is not empty is
\* removed only with recursive, and otherwise nothing is removed.
hostDelete(d, phys, recursive) ==
  IF ~Exists(d, phys) THEN [disk |-> d, result |-> "FileNotFound"]
  ELSE IF ChildrenOf(d, phys) # {} /\ ~recursive THEN [disk |-> d, result |-> "NotEmpty"]
  ELSE [disk |-> RemoveTree(d, phys), result |-> "ok"]

\* delete: the host's delete and nothing else.
delete(c) ==
  /\ CanStart(c)
  /\ \E uri \in FsUris, recursive \in BOOLEAN :
       LET call == NewCall("delete", uri, uri, FALSE, recursive)
           fsUri == toFilesystemUri(ScratchDir, uri)
           phys == fsUri.path
       IN IF fsUri.error
          THEN /\ calls' = [calls EXCEPT ![c] = Finish(call, InvalidScheme)]
               /\ UNCHANGED disk
          ELSE IF hostDelete(disk, phys, recursive).result # "ok"
          THEN /\ calls' = [calls EXCEPT ![c] = Finish([call EXCEPT !.phys = {phys}],
                                                 hostDelete(disk, phys, recursive).result)]
               /\ UNCHANGED disk
          ELSE /\ disk' = hostDelete(disk, phys, recursive).disk
               /\ calls' = Touch([calls EXCEPT
                                    ![c] = Finish([call EXCEPT !.phys = {phys},
                                                               !.wrote = TRUE], "ok")],
                                 c, {phys})
  /\ UNCHANGED <<delivered, fsRest>>

\* rename: the host's rename and nothing else.
rename(c) ==
  /\ CanStart(c)
  /\ \E oldUri \in FsUris, newUri \in FsUris, overwrite \in BOOLEAN :
       LET call == NewCall("rename", oldUri, newUri, FALSE, overwrite)
           fromUri == toFilesystemUri(ScratchDir, oldUri)
           toUri == toFilesystemUri(ScratchDir, newUri)
           from == fromUri.path
           to == toUri.path
       IN IF fromUri.error \/ toUri.error
          THEN /\ calls' = [calls EXCEPT ![c] = Finish(call, InvalidScheme)]
               /\ UNCHANGED disk
          ELSE LET sent == [call EXCEPT !.phys = {from, to}]
               IN IF ~Exists(disk, from)
                  THEN /\ calls' = [calls EXCEPT ![c] = Finish(sent, "FileNotFound")]
                       /\ UNCHANGED disk
                  ELSE IF from = to \/ (Exists(disk, to) /\ ~overwrite)
                          \/ IsPrefix(from, to) \/ BlockedByFile(disk, to)
                  THEN /\ calls' = [calls EXCEPT ![c] = Finish(sent, "FileExists")]
                       /\ UNCHANGED disk
                  ELSE /\ disk' = MoveTree(disk, from, to)
                       /\ calls' = Touch([calls EXCEPT
                                            ![c] = Finish([sent EXCEPT !.wrote = TRUE], "ok")],
                                         c, {from, to})
  /\ UNCHANGED <<delivered, fsRest>>

\* createDirectory: the host's createDirectory and nothing else.
createDirectory(c) ==
  /\ CanStart(c)
  /\ \E uri \in FsUris :
       LET call == NewCall("createDirectory", uri, uri, FALSE, FALSE)
           fsUri == toFilesystemUri(ScratchDir, uri)
           phys == fsUri.path
       IN IF fsUri.error
          THEN /\ calls' = [calls EXCEPT ![c] = Finish(call, InvalidScheme)]
               /\ UNCHANGED disk
          ELSE IF isFile(disk, phys) \/ BlockedByFile(disk, phys)
          THEN /\ calls' = [calls EXCEPT ![c] = Finish([call EXCEPT !.phys = {phys}],
                                                        "FileExists")]
               /\ UNCHANGED disk
          ELSE /\ disk' = MkdirP(disk, phys)
               /\ calls' = Touch([calls EXCEPT
                                    ![c] = Finish([call EXCEPT !.phys = {phys},
                                                               !.wrote = TRUE], "ok")],
                                 c, {phys})
  /\ UNCHANGED <<delivered, fsRest>>

\* stat, readDirectory, readFile: the host's call on the translated uri.
stat(c) ==
  /\ CanStart(c)
  /\ \E uri \in FsUris :
       LET call == NewCall("stat", uri, uri, FALSE, FALSE)
           fsUri == toFilesystemUri(ScratchDir, uri)
       IN calls' = [calls EXCEPT ![c] =
            IF fsUri.error THEN Finish(call, InvalidScheme)
            ELSE Finish([call EXCEPT !.phys = {fsUri.path}],
                        IF Exists(disk, fsUri.path) THEN "ok" ELSE "FileNotFound")]
  /\ UNCHANGED <<disk, delivered, fsRest>>

readDirectory(c) ==
  /\ CanStart(c)
  /\ \E uri \in FsUris :
       LET call == NewCall("readDirectory", uri, uri, FALSE, FALSE)
           fsUri == toFilesystemUri(ScratchDir, uri)
       IN calls' = [calls EXCEPT ![c] =
            IF fsUri.error THEN Finish(call, InvalidScheme)
            ELSE Finish([call EXCEPT !.phys = {fsUri.path}],
                        IF isDir(disk, fsUri.path) THEN "ok"
                        ELSE IF Exists(disk, fsUri.path) THEN "FileNotADirectory"
                        ELSE "FileNotFound")]
  /\ UNCHANGED <<disk, delivered, fsRest>>

readFile(c) ==
  /\ CanStart(c)
  /\ \E uri \in FsUris :
       LET call == NewCall("readFile", uri, uri, FALSE, FALSE)
           fsUri == toFilesystemUri(ScratchDir, uri)
       IN calls' = [calls EXCEPT ![c] =
            IF fsUri.error THEN Finish(call, InvalidScheme)
            ELSE Finish([call EXCEPT !.phys = {fsUri.path}],
                        IF isFile(disk, fsUri.path) THEN "ok"
                        ELSE IF Exists(disk, fsUri.path) THEN "FileIsADirectory"
                        ELSE "FileNotFound")]
  /\ UNCHANGED <<disk, delivered, fsRest>>

IdleWatch ==
  /\ notes = << >> /\ pendingStat = {} /\ items = << >>
  /\ timeoutId = NoTimeout /\ watching = "off" /\ now = 0

\* What a handler call did: the batch, whether it threw, the nodes it fired.
Log(events, threw, fired) == [events |-> events, threw |-> threw, fired |-> fired]
NoLog == Log(<< >>, FALSE, << >>)

\* The sort orders of the documents.
MostRecent == "MostRecent"
Alphabetical == "Alphabetical"

\* No getChildren call has returned yet.
NoShown == [done |-> FALSE, folder |-> << >>, order |-> << >>]

\* No getAll call has returned yet.
NoGot == [done |-> FALSE, rejected |-> FALSE, files |-> {}, listed |-> {},
          drained |-> FALSE]

IdleTree ==
  /\ nodes = {} /\ loaded = {} /\ queue = << >> /\ treeLog = NoLog
  /\ loading = {} /\ got = NoGot /\ pinned = {}
  /\ saving = FALSE /\ sortOrder = MostRecent /\ shown = NoShown

\* No reset call has been made.
NoReset == [phase |-> "idle", ops |-> 0, quiet |-> FALSE]

IdleIndex ==
  /\ index = << >> /\ inflight = {} /\ lastEvent = << >> /\ snapshot = << >>
  /\ failed = {} /\ awaited = TRUE /\ resetting = NoReset

\* The search index has loaded its snapshot and the pin store its backing
\* file, which holds no line; nothing of either is under way.
Loaded == "loaded"
TextFile(text) == [exists |-> TRUE, text |-> text]
IdleStore ==
  /\ pinLoad = Loaded /\ storeFile = TextFile(<< >>)
  /\ pinSaves = << >> /\ pinLog = << >>
IndexLoaded == [phase |-> Loaded, file |-> "valid", errors |-> 0, warned |-> 0]
IdleLoad == indexLoad = IndexLoaded /\ IdleStore

InitFs ==
  /\ disk \in {EmptyDisk, WriteDisk(EmptyDisk, ScratchDir \o <<"a">>, 0)}
  /\ calls = [c \in CallIds |-> IdleCall]
  /\ delivered = << >>
  /\ ops = 0
  /\ IdleLoad
  /\ IdleWatch /\ IdleTree /\ IdleIndex

NextFs ==
  \/ \E c \in CallIds : writeFile(c)
  \/ \E c \in CallIds : writeFileStat(c)
  \/ \E c \in CallIds : writeFileWrite(c)
  \/ \E c \in CallIds : writeFileFire(c)
  \/ \E c \in CallIds : delete(c)
  \/ \E c \in CallIds : rename(c)
  \/ \E c \in CallIds : createDirectory(c)
  \/ \E c \in CallIds : stat(c)
  \/ \E c \in CallIds : readDirectory(c)
  \/ \E c \in CallIds : readFile(c)

SpecFs == InitFs /\ [][NextFs]_vars

----------------------------------------------------------------------------
(* The watcher: ScratchFileSystemProvider.watch and batch() *)

\* The debounce delay of fireEvents (100 ms), in ticks.
Delay == 2

WatchNames == {"a", "s"}

Null == "null"

\* path.basename(watchPath) of the watched directory.
baseDirName == Last(ScratchDir)

realFilename(filename) ==
  IF filename = Null \/ filename = baseDirName THEN "" ELSE filename

Segments(name) == IF name = "" THEN << >> ELSE <<name>>

\* Uri.joinPath(watchUri, realFilename)
watchedUri(filename) == MkUri(SCHEME, joinPath(ROOT.path, Segments(realFilename(filename))))

\* path.resolve(watchPath, realFilename)
watchedPath(filename) ==
  joinPath(toFilesystemUri(ScratchDir, ROOT).path, Segments(realFilename(filename)))

batchedKeepsDeadline(buffer, input, time) ==
  [items |-> buffer \o input,
   timeoutId |-> IF buffer = << >> THEN Timeout(time + Delay) ELSE Timeout(time)]

\* batched(input): buffer the input and restart the timeout.
batched(buffer, input, time) ==
  [items |-> buffer \o input, timeoutId |-> Timeout(time + Delay)]

\* batched.cancel()
cancel == [items |-> << >>, timeoutId |-> NoTimeout]

Note(event, filename) == [event |-> event, filename |-> filename, at |-> now]

\* watch(): the native watcher is installed.
watch ==
  /\ watching = "off"
  /\ watching' = "on"
  /\ UNCHANGED <<loadVars, disk, calls, delivered, notes, pendingStat, items, timeoutId, now,
                 treeVars, indexVars, queue, ops>>

\* The fs.watch callback for a "change" notification: the event is made at
\* once and handed to fireEvents.
changeEvent(filename, n) == Event(Changed, watchedUri(filename), ByNote(n))

onChange(filename) ==
  LET n == Len(notes) + 1
      b == batched(items, <<changeEvent(filename, n)>>, now)
  IN /\ notes' = Append(notes, Note("change", filename))
     /\ items' = b.items
     /\ timeoutId' = b.timeoutId
     /\ UNCHANGED pendingStat

\* The fs.watch callback for a "rename" notification: the event waits for
\* fs.promises.stat.
onRename(filename) ==
  /\ notes' = Append(notes, Note("rename", filename))
  /\ pendingStat' = pendingStat \cup {Len(notes) + 1}
  /\ UNCHANGED <<items, timeoutId>>

\* Something outside the extension writes a file of the watched directory.
externalWrite ==
  /\ watching = "on"
  /\ Len(notes) < MaxNotes
  /\ \E name \in WatchNames :
       LET p == ScratchDir \o <<name>>
       IN /\ ~isDir(disk, p)
          /\ disk' = WriteDisk(disk, p, Len(notes) + 1)
          /\ IF Exists(disk, p) THEN onChange(name) ELSE onRename(name)
  /\ UNCHANGED <<loadVars, calls, delivered, watching, now, treeVars, indexVars, queue, ops>>

\* Something outside the extension deletes a file of the watched directory.
externalDelete ==
  /\ watching = "on"
  /\ Len(notes) < MaxNotes
  /\ \E name \in WatchNames :
       LET p == ScratchDir \o <<name>>
       IN /\ Exists(disk, p)
          /\ disk' = RemoveTree(disk, p)
          /\ onRename(name)
  /\ UNCHANGED <<loadVars, calls, delivered, watching, now, treeVars, indexVars, queue, ops>>

\* The event made when the stat of a "rename" notification settles.
renameEvent(filename, n, d) ==
  Event(IF Exists(d, watchedPath(filename)) THEN Created ELSE Deleted,
        watchedUri(filename), ByNote(n))

\* fs.promises.stat settles, and the event is handed to fireEvents.
statSettles ==
  /\ \E n \in pendingStat :
       LET b == batched(items, <<renameEvent(notes[n].filename, n, disk)>>, now)
       IN /\ pendingStat' = pendingStat \ {n}
          /\ items' = b.items
          /\ timeoutId' = b.timeoutId
  /\ UNCHANGED <<loadVars, disk, calls, delivered, notes, watching, now,
                 treeVars, indexVars, queue, ops>>

\* The timeout of batch() expires: the buffered items go to fn, which fires
\* them as one batch.
timeoutExpires ==
  /\ timeoutId.armed /\ timeoutId.due <= now
  /\ timeoutId' = NoTimeout
  /\ items' = << >>
  /\ delivered' = IF Len(items) > 0 THEN Append(delivered, items) ELSE delivered
  /\ UNCHANGED <<loadVars, disk, calls, notes, pendingStat, watching, now,
                 treeVars, indexVars, queue, ops>>

\* The Disposable returned by watch(): fireEvents.cancel(), watcher.close().
dispose ==
  /\ watching = "on"
  /\ watching' = "disposed"
  /\ items' = cancel.items
  /\ timeoutId' = cancel.timeoutId
  /\ UNCHANGED <<loadVars, disk, calls, delivered, notes, pendingStat, now,
                 treeVars, indexVars, queue, ops>>

\* Time passes, but not past a timeout that is due.
tick ==
  /\ now < MaxTime
  /\ ~(timeoutId.armed /\ timeoutId.due <= now)
  /\ now' = now + 1
  /\ UNCHANGED <<loadVars, disk, calls, delivered, notes, pendingStat, items, timeoutId, watching,
                 treeVars, indexVars, queue, ops>>

InitWatch ==
  /\ disk \in {EmptyDisk, WriteDisk(EmptyDisk, ScratchDir \o <<"a">>, 0)}
  /\ calls = [c \in CallIds |-> IdleCall]
  /\ delivered = << >>
  /\ ops = 0
  /\ IdleLoad
  /\ IdleWatch /\ IdleTree /\ IdleIndex

NextWatch ==
  \/ watch
  \/ externalWrite
  \/ externalDelete
  \/ statSettles
  \/ timeoutExpires
  \/ dispose
  \/ tick

SpecWatch == InitWatch /\ [][NextWatch]_vars

----------------------------------------------------------------------------
(* The Search Index: SearchIndexProvider *)

IndexIds == {<<"a">>, <<"b">>}

ByOp(k) == <<"op", k>>

\* uri.path.substring(1): the document id of a uri.  A path is kept without
\* its leading slash, so the id is the path.
docId(uri) == uri.path

Put(f, k, v) == [x \in DOMAIN f \cup {k} |-> IF x = k THEN v ELSE f[x]]
Drop(f, k) == [x \in DOMAIN f \ {k} |-> f[x]]

\* The Storage Gateway writes a document and fires Created or Changed.
indexedWrite ==
  /\ ops < MaxOps
  /\ \E id \in IndexIds :
       LET p == toFilesystemUri(ScratchDir, MkUri(SCHEME, id)).path
           type == IF Exists(disk, p) THEN Changed ELSE Created
       IN /\ disk' = WriteDisk(disk, p, ops + 1)
          /\ queue' = Append(queue, <<Event(type, MkUri(SCHEME, id), ByOp(ops + 1))>>)
  /\ ops' = ops + 1
  /\ awaited' = (awaited /\ queue = << >> /\ inflight = {})
  /\ UNCHANGED <<loadVars, calls, delivered, watchVars, treeVars, index, inflight, lastEvent,
                 snapshot, indexRest>>

\* A document is deleted and Deleted is fired.
indexedDelete ==
  /\ ops < MaxOps
  /\ \E id \in IndexIds :
       LET p == toFilesystemUri(ScratchDir, MkUri(SCHEME, id)).path
       IN /\ Exists(disk, p)
          /\ disk' = RemoveTree(disk, p)
          /\ queue' = Append(queue, <<Event(Deleted, MkUri(SCHEME, id), ByOp(ops + 1))>>)
  /\ ops' = ops + 1
  /\ awaited' = (awaited /\ queue = << >> /\ inflight = {})
  /\ UNCHANGED <<loadVars, calls, delivered, watchVars, treeVars, index, inflight, lastEvent,
                 snapshot, indexRest>>

\* The state of the index provider that a handler works on.
IndexState(ix, fl, snap) == [index |-> ix, inflight |-> fl, snapshot |-> snap]

\* save(): the snapshot is rewritten from the index.
save(st) == [st EXCEPT !.snapshot = st.index]

\* updateFile(uri): readDocument is on its way; the rest runs when it settles.
updateFile(st, e) ==
  [st EXCEPT !.inflight = st.inflight \cup
     {[uri |-> e.uri, by |-> e.by, read |-> FALSE, data |-> 0]}]

removeFileKeepsEntry(st, e) == st

\* removeFile(uri)
removeFile(st, e) ==
  IF docId(e.uri) \notin DOMAIN st.index THEN st
  ELSE save([st EXCEPT !.index = Drop(st.index, docId(e.uri))])

updateIndexOnFileChangeAlwaysUpdates(st, e) == updateFile(st, e)

\* updateIndexOnFileChange(change)
updateIndexOnFileChange(st, e) ==
  IF e.type = Deleted THEN removeFile(st, e) ELSE updateFile(st, e)

\* map(this.updateIndexOnFileChange) over the events of a batch.
RECURSIVE updateIndexOnFileChanges(_, _)
updateIndexOnFileChanges(st, events) ==
  IF events = << >> THEN st
  ELSE updateIndexOnFileChanges(updateIndexOnFileChange(st, Head(events)), Tail(events))

RECURSIVE NoteLast(_, _)
NoteLast(last, events) ==
  IF events = << >> THEN last
  ELSE NoteLast(Put(last, docId(Head(events).uri), Head(events)), Tail(events))

\* The subscriber of onDidChangeFile is called with the next batch.
indexHandlesBatch ==
  /\ queue # << >>
  /\ LET st == updateIndexOnFileChanges(IndexState(index, inflight, snapshot), Head(queue))
     IN /\ index' = st.index
        /\ inflight' = st.inflight
        /\ snapshot' = st.snapshot
  /\ lastEvent' = NoteLast(lastEvent, Head(queue))
  /\ queue' = Tail(queue)
  /\ UNCHANGED <<loadVars, disk, calls, delivered, watchVars, treeVars, ops, awaited, indexRest>>

\* An update call that was rejected.
Failure(u, error) == [uri |-> u.uri, by |-> u.by, error |-> error]

\* Content that is not valid UTF-8: decoder.decode, made with fatal: true,
\* throws a TypeError on it.
Undecodable == -1

\* The host performs the read of readDocument: the content at that moment.
\* A directory yields undefined, and updateFile returns; a missing file
\* rejects the promise of updateFile.
hostReads ==
  /\ \E u \in inflight :
       /\ ~u.read
       /\ LET p == toFilesystemUri(ScratchDir, u.uri).path
          IN /\ inflight' = IF isFile(disk, p) /\ disk[p].content # Undecodable
                            THEN (inflight \ {u}) \cup
                                   {[u EXCEPT !.read = TRUE, !.data = disk[p].content]}
                            ELSE inflight \ {u}
             /\ failed' = IF ~Exists(disk, p)
                          THEN failed \cup {Failure(u, "FileNotFound")}
                          ELSE IF isFile(disk, p) /\ disk[p].content = Undecodable
                          THEN failed \cup {Failure(u, "TypeError")}
                          ELSE failed
  /\ UNCHANGED <<loadVars, disk, calls, delivered, watchVars, treeVars, queue, ops,
                 index, lastEvent, snapshot, awaited, resetting>>

NoError == "none"

\* index.add(data): an id that is in the index is an error.
add(ix, id, data) ==
  IF id \in DOMAIN ix THEN [index |-> ix, error |-> "duplicate ID"]
  ELSE [index |-> Put(ix, id, data), error |-> NoError]

\* index.replace(data): an id that is not in the index is an error.
replace(ix, id, data) ==
  IF id \notin DOMAIN ix THEN [index |-> ix, error |-> "not in the index"]
  ELSE [index |-> Put(ix, id, data), error |-> NoError]

upsertAlwaysAdds(ix, id, data) == add(ix, id, data)

\* this.index.has(data.id) ? this.index.replace(data) : this.index.add(data)
upsert(ix, id, data) ==
  IF id \in DOMAIN ix THEN replace(ix, id, data) ELSE add(ix, id, data)

\* The continuation of updateFile: add or replace, then save.
updateFileApply(st, u) ==
  IF upsert(st.index, docId(u.uri), u.data).error # NoError
  THEN [st EXCEPT !.inflight = st.inflight \ {u}]
  ELSE save([st EXCEPT !.index = upsert(st.index, docId(u.uri), u.data).index,
                       !.inflight = st.inflight \ {u}])

readSettles ==
  /\ \E u \in inflight :
       /\ u.read
       /\ \E st \in {updateFileApply(IndexState(index, inflight, snapshot), u)} :
             /\ index' = st.index
             /\ inflight' = st.inflight
             /\ snapshot' = st.snapshot
       /\ failed' = IF upsert(index, docId(u.uri), u.data).error = NoError THEN failed
                    ELSE failed \cup
                           {Failure(u, upsert(index, docId(u.uri), u.data).error)}
  /\ UNCHANGED <<loadVars, disk, calls, delivered, watchVars, treeVars, queue, ops, lastEvent,
                 awaited, resetting>>

InitIndex ==
  /\ disk = EmptyDisk
  /\ calls = [c \in CallIds |-> IdleCall]
  /\ delivered = << >>
  /\ ops = 0
  /\ IdleLoad
  /\ IdleWatch /\ IdleTree /\ IdleIndex

NextIndex ==
  \/ indexedWrite
  \/ indexedDelete
  \/ indexHandlesBatch
  \/ hostReads
  \/ readSettles

SpecIndex == InitIndex /\ [][NextIndex]_vars

----------------------------------------------------------------------------
(* Tree Projection: ScratchFolder and ScratchTreeProvider *)

\* The value of e is computed once and handed to F.
With(e, F(_)) == CHOOSE r \in {F(v) : v \in {e}} : TRUE

\* A string is a sequence of tokens: the separator and the names between
\* separators. The path of a uri as a string: "/d/a" is <<"/", "d", "/", "a">>.
Sep == "/"

RECURSIVE PathString(_)
PathString(path) ==
  IF path = << >> THEN <<Sep>>
  ELSE IF Len(path) = 1 THEN <<Sep, path[1]>>
  ELSE PathString(Parent(path)) \o <<Sep, Last(path)>>

\* uri.toString(): "scratch:/d/a" is <<"scratch", ":", "/", "d", "/", "a">>.
Colon == ":"
toString(uri) == <<uri.scheme, Colon>> \o PathString(uri.path)

\* strip(text, "/"): one leading and one trailing separator are cut.
strip(text, symbol) ==
  LET result == IF text # << >> /\ Head(text) = symbol THEN Tail(text) ELSE text
  IN IF result # << >> /\ Last(result) = symbol THEN Parent(result) ELSE result

\* text.split("/"): the pieces between separators, an empty piece being "".
RECURSIVE pieces(_, _)
pieces(text, piece) ==
  IF text = << >> THEN <<piece>>
  ELSE IF Head(text) = Sep THEN <<piece>> \o pieces(Tail(text), "")
  ELSE pieces(Tail(text), Head(text))

\* text.split("/", limit): at most limit pieces are returned, the rest dropped.
split(text, limit) ==
  LET all == pieces(text, "")
  IN SubSeq(all, 1, IF Len(all) < limit THEN Len(all) ELSE limit)

\* const [childName, rest] = strip(name, "/").split("/", 1)
childNameAndRest(name) ==
  LET parts == split(strip(name, Sep), 1)
  IN [childName |-> parts[1],
      rest |-> IF Len(parts) >= 2 THEN parts[2] ELSE Undefined]

\* A node of the tree: an entry of the _children map of the folder whose uri
\* path is parent, under the key name.
ScratchNode(parent, name, type) ==
  [parent |-> parent, name |-> name, type |-> type,
   uri |-> MkUri(SCHEME, joinPath(parent, <<name>>)), mtime |-> 0, isPinned |-> FALSE]

NoNode == [parent |-> << >>, name |-> "", type |-> Undefined,
           uri |-> ROOT, mtime |-> 0, isPinned |-> FALSE]

\* The tree a handler works on: the map entries and the loaded folders.
Tree(ns, ld) == [nodes |-> ns, loaded |-> ld]

\* this._children?.get(childName)
getEntry(tree, folder, childName) ==
  {n \in tree.nodes : n.parent = folder /\ n.name = childName}

isOfType(node, type) == node.type = type

Outcome(tree, threw, node) == [tree |-> tree, threw |-> threw, node |-> node]

\* folder.addChild(name, type)
RECURSIVE addChild(_, _, _, _)
addChild(tree, folder, name, type) ==
  LET made == [tree EXCEPT !.loaded = @ \cup {folder}]
      parts == childNameAndRest(name)
      found == getEntry(made, folder, parts.childName)
  IN IF parts.rest # Undefined /\ parts.rest # ""
     THEN LET first == addChild(tree, folder, <<parts.childName>>, Directory)
          IN IF first.threw THEN first
             ELSE addChild(first.tree, first.node.uri.path, <<parts.rest>>, type)
     ELSE IF found # {} /\ ~isOfType(CHOOSE n \in found : TRUE, type)
     THEN Outcome(made, TRUE, NoNode)
     ELSE IF found = {}
     THEN LET child == ScratchNode(folder, parts.childName, type)
          IN Outcome([made EXCEPT !.nodes = @ \cup {child}], FALSE, child)
     ELSE Outcome(made, FALSE, CHOOSE n \in found : TRUE)

\* The entries below a node: they go with the node when it leaves its map.
Below(tree, node) == {n \in tree.nodes : IsPrefix(node.uri.path, n.parent)}

\* The node of a folder, as removeChild returns it.
FolderNode(tree, folder) ==
  IF folder = << >> THEN [NoNode EXCEPT !.type = Directory]
  ELSE CHOOSE n \in tree.nodes : n.uri.path = folder

\* folder.removeChild(name): node is NoNode when undefined is returned.
RECURSIVE removeChild(_, _, _)
removeChild(tree, folder, name) ==
  LET parts == childNameAndRest(name)
      found == getEntry(tree, folder, parts.childName)
      child == CHOOSE n \in found : TRUE
  IN IF found = {} THEN Outcome(tree, FALSE, NoNode)
     ELSE IF parts.rest = Undefined \/ parts.rest = ""
     THEN Outcome([nodes |-> tree.nodes \ ({child} \cup Below(tree, child)),
                   loaded |-> {f \in tree.loaded : ~IsPrefix(child.uri.path, f)}],
                  FALSE, FolderNode(tree, folder))
     ELSE IF isOfType(child, File) THEN Outcome(tree, TRUE, NoNode)
     ELSE removeChild(tree, child.uri.path, <<parts.rest>>)

\* The documents and folders the environment works with, as uri paths.
TreeFiles == {<<"a">>, <<"d", "a">>, <<"d", "b">>}
TreeDirs == {<<"d">>}

\* The names a listing can hold, in the order readDirectory returns them.
ListingOrder == <<".pinstore", "a", "b", "c", "d">>

IGNORED_FILES == {".DS_Store", ".pinstore"}

Phys(path) == toFilesystemUri(ScratchDir, MkUri(SCHEME, path)).path

\* Each write stores the number of the operation that made it, which is read
\* back as the modification time.
FileStat(d, p) == [type |-> d[p].type, mtime |-> d[p].content]
NoStat == [type |-> Undefined, mtime |-> 0]

\* A change event that carries fresh stat info where it is available.
ExtFileChangeEvent(type, uri, fileStat, by) ==
  [type |-> type, uri |-> uri, stat |-> fileStat, by |-> by]

\* The event joins the batch being collected or starts a batch of its own.
Fired(q, e) ==
  {Append(q, <<e>>)} \cup
  (IF q # << >> /\ Len(Last(q)) < MaxBatch
   THEN {[q EXCEPT ![Len(q)] = Append(@, e)]} ELSE {})

\* A document is written and Created or Changed is fired with its stat.
treeWrite ==
  /\ ops < MaxOps
  /\ \E path \in TreeFiles :
       LET p == Phys(path)
           type == IF Exists(disk, p) THEN Changed ELSE Created
           d == WriteDisk(disk, p, ops + 1)
       IN /\ isDir(disk, Parent(p))
          /\ ~isDir(disk, p)
          /\ disk' = d
          /\ queue' \in Fired(queue, ExtFileChangeEvent(type, MkUri(SCHEME, path),
                                                       FileStat(d, p), ByOp(ops + 1)))
  /\ ops' = ops + 1
  /\ got' = NoGot /\ treeLog' = NoLog
  /\ UNCHANGED <<loadVars, calls, delivered, watchVars, indexVars, nodes, loaded, loading, pinned, viewVars>>

\* A folder is made and Created is fired with its stat.
treeMkdir ==
  /\ ops < MaxOps
  /\ \E path \in TreeDirs :
       LET p == Phys(path)
           d == [MkdirP(disk, p) EXCEPT ![p].content = ops + 1]
       IN /\ ~Exists(disk, p)
          /\ disk' = d
          /\ queue' \in Fired(queue, ExtFileChangeEvent(Created, MkUri(SCHEME, path),
                                                       FileStat(d, p), ByOp(ops + 1)))
  /\ ops' = ops + 1
  /\ got' = NoGot /\ treeLog' = NoLog
  /\ UNCHANGED <<loadVars, calls, delivered, watchVars, indexVars, nodes, loaded, loading, pinned, viewVars>>

\* A document or a folder is deleted and Deleted is fired, without stat.
treeDelete ==
  /\ ops < MaxOps
  /\ \E path \in TreeFiles \cup TreeDirs :
       LET p == Phys(path)
       IN /\ Exists(disk, p)
          /\ disk' = RemoveTree(disk, p)
          /\ queue' \in Fired(queue, ExtFileChangeEvent(Deleted, MkUri(SCHEME, path),
                                                       NoStat, ByOp(ops + 1)))
  /\ ops' = ops + 1
  /\ got' = NoGot /\ treeLog' = NoLog
  /\ UNCHANGED <<loadVars, calls, delivered, watchVars, indexVars, nodes, loaded, loading, pinned, viewVars>>

\* child.mtime = stat.mtime; child.isPinned = pinStore.isPinned(uri)
isPinned(pins, uri) == toString(uri) \in pins

setFileFields(tree, child, fileStat, pins, uri) ==
  LET node == [child EXCEPT !.mtime = fileStat.mtime, !.isPinned = isPinned(pins, uri)]
  IN Outcome([tree EXCEPT !.nodes = (@ \ {child}) \cup {node}], FALSE, node)

\* The function handleFileChangeEvents maps over the events of a batch.
handleFileChangeEvent(tree, e, pins) ==
  IF e.type = Deleted THEN removeChild(tree, ROOT.path, PathString(e.uri.path))
  ELSE IF e.stat = NoStat THEN Outcome(tree, TRUE, NoNode)
  ELSE With(addChild(tree, ROOT.path, PathString(e.uri.path), e.stat.type),
            LAMBDA added :
              IF added.threw \/ added.node.type # File THEN added
              ELSE setFileFields(added.tree, added.node, e.stat, pins, e.uri))

\* handleFileChangeEvents(events): an exception in the map leaves the changes
\* made so far and nothing is fired.
RECURSIVE handleFileChangeEvents(_, _, _, _)
handleFileChangeEvents(tree, events, pins, fired) ==
  IF events = << >> THEN [tree |-> tree, threw |-> FALSE, fired |-> fired]
  ELSE With(handleFileChangeEvent(tree, Head(events), pins),
            LAMBDA one :
              IF one.threw THEN [tree |-> one.tree, threw |-> TRUE, fired |-> << >>]
              ELSE handleFileChangeEvents(one.tree, Tail(events), pins,
                     IF one.node = NoNode THEN fired
                     ELSE Append(fired, one.node.uri.path)))

\* The subscriber of onDidChangeFile handles the oldest pending batch.
treeHandlesBatch ==
  /\ queue # << >>
  /\ \E handled \in {handleFileChangeEvents(Tree(nodes, loaded), Head(queue), pinned, << >>)} :
        /\ nodes' = handled.tree.nodes
        /\ loaded' = handled.tree.loaded
        /\ treeLog' = Log(Head(queue), handled.threw, handled.fired)
  /\ queue' = Tail(queue)
  /\ got' = NoGot
  /\ UNCHANGED <<loadVars, disk, calls, delivered, watchVars, indexVars, ops, loading, pinned, viewVars>>

\* readDirectory(folder) without the ignored names, with the stat of each entry.
Listing(d, folder) ==
  LET listed(name) == name \notin IGNORED_FILES /\ Exists(d, Phys(folder) \o <<name>>)
      names == SelectSeq(ListingOrder, listed)
  IN [i \in DOMAIN names |->
        [name |-> names[i], stat |-> FileStat(d, Phys(folder) \o <<names[i]>>)]]

\* The continuation of getChildren: element.addChild for each listed entry.
RECURSIVE applyListing(_, _, _, _)
applyListing(tree, folder, listing, pins) ==
  IF listing = << >> THEN Outcome(tree, FALSE, NoNode)
  ELSE With(addChild(tree, folder, <<Head(listing).name>>, Head(listing).stat.type),
            LAMBDA added :
              IF added.threw THEN added
              ELSE IF added.node.type # File
              THEN applyListing(added.tree, folder, Tail(listing), pins)
              ELSE With(setFileFields(added.tree, added.node, Head(listing).stat, pins,
                                      added.node.uri),
                        LAMBDA set : applyListing(set.tree, folder, Tail(listing), pins)))

\* The folders of the tree: the root and the Directory nodes.
Folders(ns) == {ROOT.path} \cup {n.uri.path : n \in {m \in ns : m.type = Directory}}

\* getChildren(element) of a folder that is not loaded: the listing is read.
getChildrenLists(folder) ==
  /\ folder \in Folders(nodes)
  /\ folder \notin loaded
  /\ isDir(disk, Phys(folder))
  /\ Cardinality(loading) < MaxLoads
  /\ loading' = loading \cup {[folder |-> folder, listing |-> Listing(disk, folder)]}
  /\ got' = NoGot /\ treeLog' = NoLog
  /\ UNCHANGED <<loadVars, disk, calls, delivered, watchVars, indexVars, queue, ops,
                 nodes, loaded, pinned, viewVars>>

\* The listing settles and its entries are added to the element, if the
\* element is still part of the tree.
getChildrenLoads(l) ==
  /\ l \in loading
  /\ \E applied \in {IF l.folder \in Folders(nodes)
                      THEN applyListing(Tree(nodes, loaded), l.folder, l.listing, pinned)
                      ELSE Outcome(Tree(nodes, loaded), FALSE, NoNode)} :
        /\ nodes' = applied.tree.nodes
        /\ loaded' = applied.tree.loaded
  /\ loading' = loading \ {l}
  /\ got' = NoGot /\ treeLog' = NoLog
  /\ UNCHANGED <<loadVars, disk, calls, delivered, watchVars, indexVars, queue, ops, pinned, viewVars>>

RECURSIVE SetToSeq(_)
SetToSeq(set) ==
  IF set = {} THEN << >>
  ELSE LET x == CHOOSE y \in set : TRUE IN <<x>> \o SetToSeq(set \ {x})

\* getChildren(folder) run to completion.
getChildren(tree, d, folder, pins) ==
  IF folder \in tree.loaded THEN Outcome(tree, FALSE, NoNode)
  ELSE IF ~isDir(d, Phys(folder)) THEN Outcome(tree, TRUE, NoNode)
  ELSE applyListing(tree, folder, Listing(d, folder), pins)

\* The uri paths of the nodes of one type.
PathsOf(ns, type) == {n.uri.path : n \in {m \in ns : m.type = type}}

\* getAll(parent) for each folder of todo: the files of the folder and of the
\* folders below it.
RECURSIVE getAllFrom(_, _, _, _, _)
getAllFrom(tree, d, todo, pins, files) ==
  IF todo = << >> THEN [tree |-> tree, rejected |-> FALSE, files |-> files]
  ELSE With(getChildren(tree, d, Head(todo), pins),
            LAMBDA kids :
              IF kids.threw THEN [tree |-> kids.tree, rejected |-> TRUE, files |-> {}]
              ELSE With({n \in kids.tree.nodes : n.parent = Head(todo)},
                        LAMBDA children :
                          getAllFrom(kids.tree, d,
                                     Tail(todo) \o SetToSeq(PathsOf(children, Directory)),
                                     pins, files \cup PathsOf(children, File))))

\* The recursive listing of the Storage Gateway: the uri paths of all files.
Documents(d) ==
  {SubSeq(p, Len(ScratchDir) + 1, Len(p)) :
     p \in {q \in DOMAIN d : IsPrefix(ScratchDir, q) /\ isFile(d, q)}}

\* The documents of the namespace: its files at every depth, without the
\* files that are left out by name.
NamespaceDocuments(d) == {path \in Documents(d) : path[Len(path)] \notin IGNORED_FILES}

\* getAll(): what it returned is kept, until the next step, with the listing of
\* the Storage Gateway and whether any batch or load was pending at that moment.
getAll ==
  /\ \E all \in {getAllFrom(Tree(nodes, loaded), disk, <<ROOT.path>>, pinned, {})} :
        /\ nodes' = all.tree.nodes
        /\ loaded' = all.tree.loaded
        /\ got' = [done |-> TRUE, rejected |-> all.rejected, files |-> all.files,
                   listed |-> NamespaceDocuments(disk),
                   drained |-> queue = << >> /\ loading = {}]
  /\ treeLog' = NoLog
  /\ UNCHANGED <<loadVars, disk, calls, delivered, watchVars, indexVars, queue, ops,
                 loading, pinned, viewVars>>

----------------------------------------------------------------------------
(* Tree Projection: the order of getChildren, sort orders and pins *)

MaxMtime == 3

\* The order of the names under localeCompare.
Alphabet == <<".DS_Store", ".pinstore", "a", "b", "c", "d">>
Rank(name) == CHOOSE i \in DOMAIN Alphabet : Alphabet[i] = name

\* a.localeCompare(b) for two uri paths: the first segment that differs
\* decides, a path that is the beginning of the other comes first.
RECURSIVE localeCompare(_, _)
localeCompare(a, b) ==
  IF a = << >> /\ b = << >> THEN 0
  ELSE IF a = << >> THEN -1
  ELSE IF b = << >> THEN 1
  ELSE IF Rank(Head(a)) < Rank(Head(b)) THEN -1
  ELSE IF Rank(Head(a)) > Rank(Head(b)) THEN 1
  ELSE localeCompare(Tail(a), Tail(b))

Number(bool) == IF bool THEN 1 ELSE 0

byBoolValueFalsyFirst(fa, fb) == Number(fa) - Number(fb)

\* sort.byBoolValue(fn)(a, b), given fn(a) and fn(b)
byBoolValue(fa, fb) == Number(fb) - Number(fa)

\* sort.byNumericValue(fn)(a, b), given fn(a) and fn(b)
byNumericValue(fa, fb) == fa - fb

byStringValueAlwaysEqual(fa, fb) == 0

\* sort.byStringValue(fn)(a, b), given fn(a) and fn(b)
byStringValue(fa, fb) == localeCompare(fa, fb)

descKeepsSign(result) == result

\* sort.desc(fn)(a, b), given fn(a, b)
desc(result) == -result

\* composeComparators(...cmps)(a, b), given the results of the comparators
RECURSIVE composeComparators(_)
composeComparators(cmps) ==
  IF cmps = << >> THEN 0
  ELSE IF Head(cmps) # 0 THEN Head(cmps)
  ELSE composeComparators(Tail(cmps))

\* sort.group(fn, ...cmps)(a, b), given fn(a), fn(b) and the composed result
group(fa, fb, result) == IF fa /\ fb THEN result ELSE 0

\* The comparator chain of getChildren.
compare(a, b, order) ==
  composeComparators(<<
    byBoolValue(a.type = Directory, b.type = Directory),
    group(a.type = Directory, b.type = Directory,
          byStringValue(a.uri.path, b.uri.path)),
    group(a.type = File, b.type = File,
          composeComparators(<<
            byBoolValue(a.isPinned, b.isPinned),
            IF order = MostRecent THEN desc(byNumericValue(a.mtime, b.mtime))
            ELSE byStringValue(a.uri.path, b.uri.path)>>))>>)

\* x is put before the first element that the comparator places after it.
RECURSIVE insert(_, _, _)
insert(x, arr, order) ==
  IF arr = << >> THEN <<x>>
  ELSE IF compare(Head(arr), x, order) > 0 THEN <<x>> \o arr
  ELSE <<Head(arr)>> \o insert(x, Tail(arr), order)

\* arr.toSorted(compare): a stable sort.
RECURSIVE toSorted(_, _)
toSorted(arr, order) ==
  IF arr = << >> THEN << >>
  ELSE With(toSorted(SubSeq(arr, 1, Len(arr) - 1), order),
            LAMBDA sorted : insert(arr[Len(arr)], sorted, order))

\* The arrays that hold each element of the set once: the values of a
\* children map in every order of insertion.
Arrays(set) ==
  {arr \in [1..Cardinality(set) -> set] :
     \A i, j \in 1..Cardinality(set) : arr[i] = arr[j] => i = j}

\* getChildren(folder) of a loaded folder: the children are sorted.
getChildrenSorted(folder) ==
  /\ folder \in loaded
  /\ \E arr \in Arrays({n \in nodes : n.parent = folder}) :
       shown' = [done |-> TRUE, folder |-> folder, order |-> toSorted(arr, sortOrder)]
  /\ UNCHANGED <<loadVars, disk, calls, delivered, watchVars, indexVars, queue, ops,
                 nodes, loaded, treeLog, loading, got, pinned, saving, sortOrder>>

\* setSortOrder(order): the whole tree is fired as changed, so what
\* getChildren returned before is out of date.
setSortOrder(order) ==
  /\ order # sortOrder
  /\ sortOrder' = order
  /\ shown' = NoShown
  /\ UNCHANGED <<loadVars, disk, calls, delivered, watchVars, indexVars, queue, ops,
                 nodes, loaded, treeLog, loading, got, pinned, saving>>

\* folder.getChild(name): NoNode when undefined is returned.
RECURSIVE getChild(_, _, _)
getChild(tree, folder, name) ==
  LET parts == childNameAndRest(name)
      found == getEntry(tree, folder, parts.childName)
      child == IF found = {} THEN NoNode ELSE CHOOSE n \in found : TRUE
  IN IF parts.rest = Undefined \/ parts.rest = "" THEN child
     ELSE IF child = NoNode \/ child.type = File THEN NoNode
     ELSE getChild(tree, child.uri.path, <<parts.rest>>)

\* A change of the pin state of a document; the type tells the events of the
\* pin store from those of the Storage Gateway in the log of the handlers.
PinState == "PinState"
PinStateChangeEvent(uri, pin) == [type |-> PinState, uri |-> uri, isPinned |-> pin]

\* handlePinStateChangeEvents(events): the files whose flag differs from the
\* event's are changed and collected; the collection is fired.
RECURSIVE handlePinStateChangeEvents(_, _, _)
handlePinStateChangeEvents(tree, events, changed) ==
  IF events = << >> THEN [tree |-> tree, threw |-> FALSE, fired |-> changed]
  ELSE With(getChild(tree, ROOT.path, PathString(Head(events).uri.path)),
            LAMBDA child :
              IF child # NoNode /\ child.type = File
                 /\ child.isPinned # Head(events).isPinned
              THEN handlePinStateChangeEvents(
                     [tree EXCEPT !.nodes = (@ \ {child}) \cup
                        {[child EXCEPT !.isPinned = Head(events).isPinned]}],
                     Tail(events), Append(changed, child.uri.path))
              ELSE handlePinStateChangeEvents(tree, Tail(events), changed))

\* The documents that are pinned and unpinned.
PinPaths == {<<"a">>, <<"b">>, <<"d", "a">>}

\* The store is changed, the change is fired to the tree, which handles it
\* at once, and a save of the store is asked for.
setPinned(uri, pin, store) ==
  /\ ops < MaxOps
  /\ pinned' = store
  /\ \E handled \in {handlePinStateChangeEvents(Tree(nodes, loaded),
                                                <<PinStateChangeEvent(uri, pin)>>, << >>)} :
        /\ nodes' = handled.tree.nodes
        /\ loaded' = handled.tree.loaded
        /\ treeLog' = Log(<<PinStateChangeEvent(uri, pin)>>, handled.threw, handled.fired)
  /\ saving' = TRUE
  /\ ops' = ops + 1
  /\ got' = NoGot
  /\ UNCHANGED <<loadVars, disk, calls, delivered, watchVars, indexVars, queue, loading,
                 sortOrder, shown>>

\* pinStore.pin(uri)
pin(uri) == setPinned(uri, TRUE, pinned \cup {toString(uri)})

\* pinStore.unpin(uri)
unpin(uri) == setPinned(uri, FALSE, pinned \ {toString(uri)})

\* The uri of the backing file of the pin store.
storeUri == MkUri(SCHEME, joinPath(ROOT.path, <<".pinstore">>))

\* save(): the store is written to its backing file through the Storage
\* Gateway, which fires Created or Changed for the backing file.
pinStoreSaves ==
  /\ saving
  /\ ops < MaxOps
  /\ LET p == Phys(storeUri.path)
         type == IF Exists(disk, p) THEN Changed ELSE Created
         d == WriteDisk(disk, p, ops + 1)
     IN /\ disk' = d
        /\ queue' \in Fired(queue, ExtFileChangeEvent(type, storeUri, FileStat(d, p),
                                                     ByOp(ops + 1)))
  /\ saving' = FALSE
  /\ ops' = ops + 1
  /\ got' = NoGot /\ treeLog' = NoLog
  /\ UNCHANGED <<loadVars, calls, delivered, watchVars, indexVars, nodes, loaded, loading,
                 pinned, sortOrder, shown>>

\* The namespace when the tree is constructed; the backing file of the pin
\* store is there, and the store has loaded it.
StoreDisk == WriteDisk(EmptyDisk, Phys(storeUri.path), 0)

InitTree ==
  /\ disk \in {StoreDisk,
               WriteDisk(WriteDisk(StoreDisk, Phys(<<"a">>), 0), Phys(<<"d", "a">>), 0)}
  /\ calls = [c \in CallIds |-> IdleCall]
  /\ delivered = << >>
  /\ ops = 0
  /\ IdleLoad
  /\ IdleWatch /\ IdleTree /\ IdleIndex

NextTree ==
  \/ \E path \in PinPaths : pin(MkUri(SCHEME, path))
  \/ \E path \in PinPaths : unpin(MkUri(SCHEME, path))
  \/ pinStoreSaves
  \/ treeWrite
  \/ treeMkdir
  \/ treeDelete
  \/ treeHandlesBatch
  \/ \E folder \in Folders(nodes) : getChildrenLists(folder)
  \/ \E l \in loading : getChildrenLoads(l)
  \/ getAll

SpecTree == InitTree /\ [][NextTree]_vars

\* The names of the entries of the namespace whose order is looked at.
SortNames == {"a", "b", "c"}

\* What a name can be: no entry, a folder, or a file with a modification time.
SortEntries ==
  {[type |-> Undefined, content |-> 0], DirEntry} \cup
  {FileEntry(mtime) : mtime \in 1..MaxMtime}

\* The namespace with the entries given for the names.
SortDisk(entries) ==
  [p \in DOMAIN EmptyDisk \cup
         {Phys(<<name>>) : name \in {n \in SortNames : entries[n].type # Undefined}} |->
     IF p \in DOMAIN EmptyDisk THEN EmptyDisk[p] ELSE entries[Last(p)]]

\* The pin store has loaded its pins, the provider has been made and
\* getChildren() of the root has completed.
InitSort ==
  /\ pinned \in SUBSET {toString(MkUri(SCHEME, <<name>>)) : name \in SortNames}
  /\ \E entries \in [SortNames -> SortEntries] :
       /\ disk = SortDisk(entries)
       /\ \E listed \in {applyListing(Tree({}, {}), ROOT.path,
                                      Listing(SortDisk(entries), ROOT.path), pinned)} :
            nodes = listed.tree.nodes /\ loaded = listed.tree.loaded
  /\ queue = << >> /\ treeLog = NoLog /\ loading = {} /\ got = NoGot
  /\ saving = FALSE /\ sortOrder = MostRecent /\ shown = NoShown
  /\ calls = [c \in CallIds |-> IdleCall]
  /\ delivered = << >>
  /\ ops = 0
  /\ IdleLoad
  /\ IdleWatch /\ IdleIndex

NextSort ==
  \/ getChildrenSorted(ROOT.path)
  \/ \E order \in {MostRecent, Alphabetical} : setSortOrder(order)

SpecSort == InitSort /\ [][NextSort]_vars

----------------------------------------------------------------------------
(* Pin Store: load, pin and unpin, save *)

\* The text of a file is a sequence of tokens, "\n" being one of them.
NL == "\n"

\* The backing file is not there.
NoFile == [exists |-> FALSE, text |-> << >>]

\* Array.from(lines).join("\n")
RECURSIVE join(_, _)
join(lines, sep) ==
  IF lines = << >> THEN << >>
  ELSE IF Len(lines) = 1 THEN lines[1]
  ELSE lines[1] \o <<sep>> \o join(Tail(lines), sep)

\* writeLines(uri, lines): the text that is handed to writeFile.
writeLines(lines) == join(lines, NL) \o <<NL>>

\* text.split("\n"): the lines between the separators, the last one included.
RECURSIVE splitLines(_, _)
splitLines(text, line) ==
  IF text = << >> THEN <<line>>
  ELSE IF Head(text) = NL THEN <<line>> \o splitLines(Tail(text), << >>)
  ELSE splitLines(Tail(text), Append(line, Head(text)))

\* readLines(uri), for a file that is there.
readLines(file) == splitLines(file.text, << >>)

\* Uri.parse(uriString), for the strings that toString makes.
parseDropsPath(text) == MkUri(text[1], << >>)

parse(text) ==
  MkUri(text[1], SelectSeq(SubSeq(text, 3, Len(text)), LAMBDA token : token # Sep))

\* What the pin store fires: a batch of onDidChangeState, or onDidLoad.
ChangeState(events) == [kind |-> "onDidChangeState", events |-> events]
DidLoad == [kind |-> "onDidLoad", events |-> << >>]

\* The documents that are pinned and unpinned through the store.
StoreUris == {MkUri(SCHEME, <<"a">>), MkUri(SCHEME, <<"b">>)}

\* The texts the backing file can hold when the store is constructed.
StoreTexts == {<<NL>>, writeLines(<<toString(MkUri(SCHEME, <<"a">>))>>)}

\* A save call whose callback on this.loaded has not run yet.
Asked == [stage |-> "asked", text |-> << >>]

\* pin(uri) and unpin(uri): the store is changed, one event is fired and
\* save() is called, whatever the store held.
storeChanges(uri, isPinnedNow, store) ==
  /\ ops < MaxOps
  /\ pinned' = store
  /\ pinLog' = Append(pinLog, ChangeState(<<PinStateChangeEvent(uri, isPinnedNow)>>))
  /\ pinSaves' = Append(pinSaves, Asked)
  /\ ops' = ops + 1
  /\ UNCHANGED <<disk, calls, delivered, watchVars, indexVars, indexLoad, queue,
                 nodes, loaded, treeLog, loading, got, viewVars, pinLoad, storeFile>>

pinStorePin(uri) == storeChanges(uri, TRUE, pinned \cup {toString(uri)})

pinStoreUnpin(uri) == storeChanges(uri, FALSE, pinned \ {toString(uri)})

\* load() settles.  readLines is rejected when the backing file is not
\* there, and nothing handles the rejection: this.loaded is rejected.
\* Otherwise the lines that are not empty are added to the store, one batch
\* with every uri of the store is fired, and then onDidLoad.
pinStoreLoads ==
  /\ pinLoad = "pending"
  /\ IF ~storeFile.exists
     THEN /\ pinLoad' = "rejected"
          /\ UNCHANGED <<pinned, pinLog>>
     ELSE /\ pinLoad' = Loaded
          /\ pinned' = pinned \cup
               {line \in {readLines(storeFile)[i] : i \in DOMAIN readLines(storeFile)} :
                  Len(line) > 0}
          /\ \E values \in Arrays(pinned') :
               pinLog' = pinLog \o
                 <<ChangeState([i \in DOMAIN values |->
                                  PinStateChangeEvent(parse(values[i]), TRUE)]),
                   DidLoad>>
  /\ UNCHANGED <<disk, calls, delivered, watchVars, indexVars, indexLoad, queue, ops,
                 nodes, loaded, treeLog, loading, got, viewVars, storeFile, pinSaves>>

\* The callback of a save runs, once this.loaded is fulfilled and in the
\* order of the save calls: the store as it is then is handed to writeLines.
pinStoreSaveRuns ==
  /\ pinLoad = Loaded
  /\ \E i \in DOMAIN pinSaves :
       /\ pinSaves[i] = Asked
       /\ \A j \in 1 .. (i - 1) : pinSaves[j] # Asked
       /\ \E values \in Arrays(pinned) :
            pinSaves' = [pinSaves EXCEPT ![i] = [stage |-> "writing",
                                                 text |-> writeLines(values)]]
  /\ UNCHANGED <<disk, calls, delivered, watchVars, indexVars, indexLoad, queue, ops,
                 nodes, loaded, treeLog, loading, got, viewVars, pinned, pinLoad,
                 storeFile, pinLog>>

\* The host completes the write of one save; the writes of overlapping saves
\* complete in any order.
pinStoreSaveWrites ==
  /\ \E i \in DOMAIN pinSaves :
       /\ pinSaves[i].stage = "writing"
       /\ storeFile' = TextFile(pinSaves[i].text)
       /\ pinSaves' = [j \in 1 .. (Len(pinSaves) - 1) |->
                         IF j < i THEN pinSaves[j] ELSE pinSaves[j + 1]]
  /\ UNCHANGED <<disk, calls, delivered, watchVars, indexVars, indexLoad, queue, ops,
                 nodes, loaded, treeLog, loading, got, viewVars, pinned, pinLoad, pinLog>>

InitPins ==
  /\ disk = EmptyDisk
  /\ calls = [c \in CallIds |-> IdleCall]
  /\ delivered = << >>
  /\ ops = 0
  /\ IdleWatch /\ IdleTree /\ IdleIndex /\ indexLoad = IndexLoaded
  /\ pinLoad = "pending"
  /\ storeFile \in {NoFile} \cup {TextFile(text) : text \in StoreTexts}
  /\ pinSaves = << >> /\ pinLog = << >>

NextPins ==
  \/ \E uri \in StoreUris : pinStorePin(uri)
  \/ \E uri \in StoreUris : pinStoreUnpin(uri)
  \/ pinStoreLoads
  \/ pinStoreSaveRuns
  \/ pinStoreSaveWrites

SpecPins == InitPins /\ [][NextPins]_vars

----------------------------------------------------------------------------
(* Search Index: folders, search and reset *)

\* A folder is made and the watcher fires Created for it.
indexedMkdir ==
  /\ ops < MaxOps
  /\ \E id \in IndexIds :
       LET p == toFilesystemUri(ScratchDir, MkUri(SCHEME, id)).path
       IN /\ ~Exists(disk, p)
          /\ disk' = MkdirP(disk, p)
          /\ queue' = Append(queue, <<Event(Created, MkUri(SCHEME, id), ByOp(ops + 1))>>)
  /\ ops' = ops + 1
  /\ awaited' = (awaited /\ queue = << >> /\ inflight = {})
  /\ UNCHANGED <<loadVars, calls, delivered, watchVars, treeVars, index, inflight, lastEvent,
                 snapshot, indexRest>>

\* search(query): the ids of the documents whose content holds the term; the
\* content of a document is the one term written to it.
search(ix, query) == {id \in DOMAIN ix : ix[id] = query}

\* size()
size(ix) == Cardinality(DOMAIN ix)

\* readTree(fs, ROOT): the files of the namespace, at every depth.
readTree(d) == Documents(d)

\* The update calls made by reset.
ByReset == <<"reset", 0>>

\* reset(): the index is emptied, the tree is read and updateFile is called
\* for each of its files.
reset ==
  /\ index' = << >>
  /\ inflight' = inflight \cup
       {[uri |-> MkUri(SCHEME, path), by |-> ByReset, read |-> FALSE, data |-> 0] :
          path \in readTree(disk)}
  /\ resetting' = [phase |-> "running", ops |-> ops,
                   quiet |-> queue = << >> /\ inflight = {}]

\* reset() is called by the user.
resetStarts ==
  /\ resetting.phase = "idle"
  /\ reset
  /\ UNCHANGED <<loadVars, disk, calls, delivered, watchVars, treeVars, queue, ops,
                 lastEvent, snapshot, failed, awaited>>

\* waitPromises is Promise.all: it is rejected as soon as one update of reset
\* is rejected, and the save is not made; it is fulfilled when every update
\* is done, and the index is saved.
resetCompletes ==
  /\ resetting.phase = "running"
  /\ IF \E f \in failed : f.by = ByReset THEN TRUE
     ELSE \A u \in inflight : u.by # ByReset
  /\ IF \E f \in failed : f.by = ByReset
     THEN /\ resetting' = [resetting EXCEPT !.phase = "rejected"]
          /\ UNCHANGED snapshot
     ELSE /\ resetting' = [resetting EXCEPT !.phase = "done"]
          /\ snapshot' = index
  /\ UNCHANGED <<loadVars, disk, calls, delivered, watchVars, treeVars, queue, ops,
                 index, inflight, lastEvent, failed, awaited>>

\* The index that load() has read from the index file: empty, or with the
\* entry of a document that is no longer there.
LoadedIndexes == {<< >>, (<<"c">> :> 0)}

InitSearch ==
  /\ disk \in {EmptyDisk, WriteDisk(EmptyDisk, Phys(storeUri.path), 0),
               WriteDisk(EmptyDisk, Phys(<<"b">>), Undecodable)}
  /\ index \in LoadedIndexes
  /\ inflight = {} /\ lastEvent = << >> /\ snapshot = << >>
  /\ failed = {} /\ awaited = TRUE /\ resetting = NoReset
  /\ calls = [c \in CallIds |-> IdleCall]
  /\ delivered = << >>
  /\ ops = 0
  /\ IdleLoad
  /\ IdleWatch /\ IdleTree

NextSearch ==
  \/ indexedWrite
  \/ indexedDelete
  \/ indexedMkdir
  \/ indexHandlesBatch
  \/ hostReads
  \/ readSettles
  \/ resetStarts
  \/ resetCompletes

SpecSearch == InitSearch /\ [][NextSearch]_vars

----------------------------------------------------------------------------
(* Search Index: load *)

\* What load() can find at the place of the snapshot.
SnapshotFiles == {"valid", "missing", "corrupt"}

\* load() settles.  A snapshot that is read and parsed becomes the index.
\* Otherwise the rejection is caught and onLoadError is fired once; its
\* subscriber, set by the extension, calls reset() and shows a warning.
loadSettles ==
  /\ indexLoad.phase = "pending"
  /\ IF indexLoad.file = "valid"
     THEN /\ index' \in LoadedIndexes
          /\ indexLoad' = [indexLoad EXCEPT !.phase = Loaded]
          /\ UNCHANGED <<inflight, resetting>>
     ELSE /\ reset
          /\ indexLoad' = [indexLoad EXCEPT !.phase = "failed", !.errors = @ + 1,
                                            !.warned = @ + 1]
  /\ UNCHANGED <<storeVars, disk, calls, delivered, watchVars, treeVars, queue, ops,
                 lastEvent, snapshot, failed, awaited>>

InitLoad ==
  /\ disk \in {EmptyDisk, StoreDisk}
  /\ index = << >>
  /\ inflight = {} /\ lastEvent = << >> /\ snapshot = << >>
  /\ failed = {} /\ awaited = TRUE /\ resetting = NoReset
  /\ calls = [c \in CallIds |-> IdleCall]
  /\ delivered = << >>
  /\ ops = 0
  /\ IdleWatch /\ IdleTree /\ IdleStore
  /\ \E file \in SnapshotFiles :
       indexLoad = [phase |-> "pending", file |-> file, errors |-> 0, warned |-> 0]

NextLoad ==
  \/ loadSettles
  \/ indexedWrite
  \/ indexedDelete
  \/ indexHandlesBatch
  \/ hostReads
  \/ readSettles
  \/ resetCompletes

SpecLoad == InitLoad /\ [][NextLoad]_vars

----------------------------------------------------------------------------
(* Search Index: a document is moved *)

\* The document that is moved and the place it is moved to.
MovedFrom == <<"dir1", "file.txt">>
MovedTo == <<"dir2", "file.txt">>

\* rename(oldUri, newUri) fires nothing itself.  The watcher sees a "rename"
\* notification for each of the two names, and each becomes Deleted or
\* Created when its stat settles, in either order and in one batch or two.
indexedMove ==
  /\ ops < MaxOps
  /\ \E from, to \in {MovedFrom, MovedTo} :
       /\ isFile(disk, Phys(from))
       /\ ~Exists(disk, Phys(to))
       /\ isDir(disk, Parent(Phys(to)))
       /\ disk' = MoveTree(disk, Phys(from), Phys(to))
       /\ LET gone == Event(Deleted, MkUri(SCHEME, from), ByOp(ops + 1))
              there == Event(Created, MkUri(SCHEME, to), ByOp(ops + 1))
          IN queue' \in {Append(queue, <<gone, there>>), Append(queue, <<there, gone>>),
                         queue \o <<<<gone>>, <<there>>>>, queue \o <<<<there>>, <<gone>>>>}
  /\ ops' = ops + 1
  /\ awaited' = (awaited /\ queue = << >> /\ inflight = {})
  /\ UNCHANGED <<loadVars, calls, delivered, watchVars, treeVars, index, inflight,
                 lastEvent, snapshot, indexRest>>

\* dir1/file.txt is there and indexed, and dir2 is an empty folder.
InitMove ==
  /\ disk = MkdirP(WriteDisk(EmptyDisk, Phys(MovedFrom), 0), Phys(Parent(MovedTo)))
  /\ index = (MovedFrom :> 0)
  /\ inflight = {} /\ lastEvent = << >> /\ snapshot = index
  /\ failed = {} /\ awaited = TRUE /\ resetting = NoReset
  /\ calls = [c \in CallIds |-> IdleCall]
  /\ delivered = << >>
  /\ ops = 0
  /\ IdleWatch /\ IdleTree /\ IdleLoad

NextMove ==
  \/ indexedMove
  \/ indexedWrite
  \/ indexedDelete
  \/ indexHandlesBatch
  \/ hostReads
  \/ readSettles

SpecMove == InitMove /\ [][NextMove]_vars

----------------------------------------------------------------------------
(* Claims about the Storage Gateway, checked under SpecFs *)

\* The events delivered so far, as the set of their places in delivered.
Places == UNION {{<<i, j>> : j \in DOMAIN delivered[i]} : i \in DOMAIN delivered}

EventAt(pl) == delivered[pl[1]][pl[2]]

PlacesBy(c) == {pl \in Places : EventAt(pl).by = ByCall(c)}

Returned(c) == calls[c].pc = "done"
Succeeded(c) == Returned(c) /\ calls[c].result = "ok"

C3_WriteFileRejects ==
  \A c \in CallIds :
    calls[c].op = "writeFile" =>
      /\ (calls[c].seen = "exists" /\ ~calls[c].overwrite) =>
           /\ Returned(c) /\ calls[c].result = "FileExists"
           /\ ~calls[c].wrote /\ PlacesBy(c) = {}
      /\ (calls[c].seen = "absent" /\ ~calls[c].create) =>
           /\ Returned(c) /\ calls[c].result = "FileNotFound"
           /\ ~calls[c].wrote /\ PlacesBy(c) = {}

\* Both rejections have happened.
C3_Witness ==
  /\ \E c \in CallIds :
       /\ calls[c].op = "writeFile" /\ calls[c].seen = "exists" /\ ~calls[c].overwrite
       /\ calls[c].result = "FileExists"
  /\ \E c \in CallIds :
       /\ calls[c].op = "writeFile" /\ calls[c].seen = "absent" /\ ~calls[c].create
       /\ calls[c].result = "FileNotFound"

Mutators == {"writeFile", "delete", "rename", "createDirectory"}

\* C4: every mutator that has returned successfully has itself fired a change
\* event, and every event delivered comes from a call whose physical step has
\* succeeded.
C4_MutatorsFireTheirEvents ==
  /\ \A c \in CallIds :
       (calls[c].op \in Mutators /\ Succeeded(c)) => PlacesBy(c) # {}
  /\ \A pl \in Places : \E c \in CallIds : EventAt(pl).by = ByCall(c) /\ calls[c].wrote

\* C8: every physical location handed to the host by a Storage Gateway call
\* lies under the configured root.
C8_PhysicalLocationsUnderRoot ==
  \A c \in CallIds : \A p \in calls[c].phys : IsPrefix(ScratchDir, p)

\* C9: when only writeFile and delete calls have been made, however they
\* overlap, an event of a write is Created only if the target did not exist
\* when the physical write took effect, and Changed only if it did.
C9_KindMatchesStateAtWrite ==
  (\A k \in CallIds : calls[k].op \in {"none", "writeFile", "delete"}) =>
    \A c \in CallIds : \A pl \in PlacesBy(c) :
      calls[c].op = "writeFile" =>
        (EventAt(pl).type = Created <=> ~calls[c].existed)

----------------------------------------------------------------------------
(* Claims about the watcher, checked under SpecWatch *)

\* The native notification an event was made from.
NoteOf(pl) == EventAt(pl).by[2]

Before(pl1, pl2) == pl1[1] < pl2[1] \/ (pl1[1] = pl2[1] /\ pl1[2] < pl2[2])

\* C6: the events of two notifications observed less than one debounce delay
\* apart are delivered in the same batch, and no batch holds two events with
\* the same kind and identifier.
C6_OneDeduplicatedBatchPerWindow ==
  /\ \A pl1 \in Places, pl2 \in Places :
       (notes[NoteOf(pl2)].at - notes[NoteOf(pl1)].at \in 0..(Delay - 1))
         => pl1[1] = pl2[1]
  /\ \A pl1 \in Places, pl2 \in Places :
       (pl1[1] = pl2[1] /\ pl1[2] # pl2[2])
         => ~(EventAt(pl1).type = EventAt(pl2).type /\ EventAt(pl1).uri = EventAt(pl2).uri)

\* C7: events are delivered in the order in which their notifications were
\* observed, across batches and within a batch.
C7_DeliveredInObservationOrder ==
  \A pl1 \in Places, pl2 \in Places :
    Before(pl1, pl2) => NoteOf(pl1) < NoteOf(pl2)

----------------------------------------------------------------------------
(* Claims about the Search Index, checked under SpecIndex *)

Drained == queue = << >> /\ inflight = {}

\* C5: once every event has been handled and no update is in flight, an
\* identifier whose last event was Deleted is absent from the index, and any
\* other identifier with an event is present with the content written by its
\* last Created or Changed event.
C5_IndexReflectsLastEvent ==
  Drained =>
    \A id \in DOMAIN lastEvent :
      IF lastEvent[id].type = Deleted
      THEN id \notin DOMAIN index
      ELSE id \in DOMAIN index /\ index[id] = lastEvent[id].by[2]

----------------------------------------------------------------------------
(* Claims about the Tree Projection, checked under SpecTree *)

Registered(x, types) ==
  \E n \in nodes :
    /\ n.uri.path = x /\ n.parent = Parent(x) /\ n.name = Last(x)
    /\ n.type \in types

\* C10: when the handler has handled a batch that ends with a Created or
\* Changed event for X, the tree has a node for X in the map of the parent
\* folder of X under the last segment of X, every folder above X has its
\* Directory node keyed by its own segment, the node the handler registered
\* and fired is the node of X, and every node is keyed by the last segment
\* of its own uri in the folder above it.
C10_AddChildRegistersUnderOwnParent ==
  (treeLog.events # << >> /\ Last(treeLog.events).type \in {Created, Changed}) =>
    LET x == Last(treeLog.events).uri.path
    IN /\ ~treeLog.threw
       /\ Registered(x, {File, Directory})
       /\ \A a \in Prefixes(x) \ {<< >>, x} : Registered(a, {Directory})
       /\ treeLog.fired # << >> /\ Last(treeLog.fired) = x
       /\ \A n \in nodes : n.uri.path = n.parent \o <<n.name>>

\* The handler takes a batch that holds exactly one event, of one of the types.
HandlesOne(types) ==
  /\ queue # << >> /\ queue' = Tail(queue)
  /\ Len(Head(queue)) = 1 /\ Head(queue)[1].type \in types

\* C11: handling a Deleted event for X removes the node of X and the nodes
\* below it and nothing else, and when a node of X was in the tree the removal
\* is notified.
C11_DeletedRemovesExactlyTheNode ==
  [][HandlesOne({Deleted}) =>
       LET x == Head(queue)[1].uri.path
       IN /\ nodes' = {n \in nodes : ~IsPrefix(x, n.uri.path)}
          /\ (\E n \in nodes : n.uri.path = x) => treeLog'.fired # << >>]_vars

\* C12: when the listing read by getChildren(folder) settles and the folder is
\* still part of the tree, the folder is loaded, whatever the listing holds
\* (an empty listing included), and a folder that is loaded stays loaded over
\* every completion of getChildren.
C12_FolderLoadedAfterFirstChildren ==
  [][\A l \in loading :
       (loading' = loading \ {l} /\ l.folder \in Folders(nodes)) =>
         /\ l.folder \in loaded'
         /\ loaded \subseteq loaded']_vars

\* The step is a pin or an unpin: the tree has handled its event.
HandlesPinState ==
  /\ ops' = ops + 1
  /\ treeLog'.events # << >> /\ treeLog'.events[1].type = PinState

\* C16: when the tree handles a pin state event for X and a file node of X
\* is in the tree, at any depth, the node's flag becomes the event's value and,
\* if the flag has changed, exactly that node is notified; when no node of X
\* is in the tree, the tree is unchanged and no node is notified.
C16_PinEventUpdatesTheNode ==
  [][HandlesPinState =>
       LET e == treeLog'.events[1]
           had == {n \in nodes : n.uri.path = e.uri.path /\ n.type = File}
       IN IF had # {}
          THEN /\ \A n \in nodes' : n.uri.path = e.uri.path => n.isPinned = e.isPinned
               /\ (\E n \in had : n.isPinned # e.isPinned) =>
                    treeLog'.fired = <<e.uri.path>>
          ELSE nodes' = nodes /\ treeLog'.fired = << >>]_vars

C30_HandlerNeverThrows ==
  ~treeLog.threw

----------------------------------------------------------------------------
(* Claims about the order of getChildren, checked under SpecSort *)

\* The places of what getChildren returned, and the documents among them.
Shown == DOMAIN shown.order
ShownFiles == {i \in Shown : shown.order[i].type = File}
ShownFolders == {i \in Shown : shown.order[i].type = Directory}

\* C13: in what getChildren returns, every pinned document comes before every
\* unpinned document, in both sort orders and whatever the modification times
\* and the names are.
C13_PinnedDocumentsFirst ==
  \A i, j \in ShownFiles :
    (shown.order[i].isPinned /\ ~shown.order[j].isPinned) => i < j

\* A pinned document is returned before an unpinned one that is more recent
\* and comes before it in the alphabet.
C13_Witness ==
  \E i, j \in ShownFiles :
    /\ shown.order[i].isPinned /\ ~shown.order[j].isPinned /\ i < j
    /\ shown.order[i].mtime < shown.order[j].mtime
    /\ localeCompare(shown.order[j].uri.path, shown.order[i].uri.path) < 0

\* C14: in what getChildren returns, every folder comes before every
\* document, and the folders are in the alphabetical order of their paths,
\* in both sort orders.
C14_FoldersFirstAlphabetical ==
  /\ \A i \in ShownFolders, j \in ShownFiles : i < j
  /\ \A i, j \in ShownFolders :
       localeCompare(shown.order[i].uri.path, shown.order[j].uri.path) < 0 => i < j

\* Two folders are returned, in the order of their paths, before a pinned
\* document.
C14_Witness ==
  \E i, j \in ShownFolders, k \in ShownFiles :
    /\ i < j /\ j < k /\ shown.order[k].isPinned
    /\ localeCompare(shown.order[i].uri.path, shown.order[j].uri.path) < 0

\* The paths of what getChildren returned.
ShownPaths == [i \in Shown |-> shown.order[i].uri.path]

\* The tree holds the documents a, b and c with modification times 100, 300
\* and 200 (1, 3 and 2 ticks), and the pinned ones are as given.
Scenario(pins) ==
  /\ shown.done
  /\ {[path |-> n.uri.path, type |-> n.type, mtime |-> n.mtime] : n \in nodes} =
       {[path |-> <<"a">>, type |-> File, mtime |-> 1],
        [path |-> <<"b">>, type |-> File, mtime |-> 3],
        [path |-> <<"c">>, type |-> File, mtime |-> 2]}
  /\ {n.uri.path : n \in {m \in nodes : m.isPinned}} = pins

\* C15: among the documents of one folder with the same pin state, getChildren
\* orders by descending modification time in the most-recent order and by
\* path in the alphabetical order; for a(100), b(300), c(200) the most-recent
\* order is b, c, a and with a pinned it is a, b, c.
C15_DocumentsOrderedBySortOrder ==
  /\ \A i, j \in ShownFiles :
       (shown.order[i].isPinned = shown.order[j].isPinned) =>
         IF sortOrder = MostRecent
         THEN shown.order[i].mtime > shown.order[j].mtime => i < j
         ELSE localeCompare(shown.order[i].uri.path, shown.order[j].uri.path) < 0 => i < j
  /\ (Scenario({}) /\ sortOrder = MostRecent) => ShownPaths = <<<<"b">>, <<"c">>, <<"a">>>>
  /\ (Scenario({<<"a">>}) /\ sortOrder = MostRecent) =>
       ShownPaths = <<<<"a">>, <<"b">>, <<"c">>>>

\* getChildren has returned a, b, c for a(100), b(300), c(200) with a pinned.
C15_Witness ==
  /\ Scenario({<<"a">>}) /\ sortOrder = MostRecent
  /\ ShownPaths = <<<<"a">>, <<"b">>, <<"c">>>>

----------------------------------------------------------------------------
(* Claims about the Search Index, checked under SpecSearch *)

Terms == 0 .. MaxOps

\* An update call leaves the set of calls under way: its add or replace ran.
Applies(u) == u.read /\ u \in inflight /\ u \notin inflight'

\* The read of an update call found a directory.
ReadsDirectory(u) ==
  /\ ~u.read /\ u \in inflight /\ u \notin inflight'
  /\ isDir(disk, Phys(docId(u.uri)))

AwaitedAndDone == awaited /\ queue = << >> /\ inflight = {}

\* C19: events are routed by kind, so that when the index work of each event
\* is awaited before the next operation, a document that was written is
\* returned by search for its term, and a document that was deleted is
\* returned by no search.
C19_SearchFollowsAwaitedEvents ==
  AwaitedAndDone =>
    \A id \in DOMAIN lastEvent :
      IF isFile(disk, Phys(id))
      THEN id \in search(index, disk[Phys(id)].content)
      ELSE \A term \in Terms : id \notin search(index, term)

\* One document was deleted after it was there, and another was written last.
C19_Witness ==
  /\ AwaitedAndDone /\ ops = MaxOps
  /\ <<"a">> \in DOMAIN lastEvent /\ lastEvent[<<"a">>].type = Deleted
  /\ \A term \in Terms : <<"a">> \notin search(index, term)
  /\ isFile(disk, Phys(<<"b">>))
  /\ search(index, disk[Phys(<<"b">>)].content) = {<<"b">>}

\* reset() was called when no index work was under way, no change was made
\* since, and it has completed.
ResetCompletedAlone ==
  /\ resetting.phase = "done"
  /\ resetting.quiet
  /\ resetting.ops = ops
  /\ queue = << >> /\ inflight = {}

\* C20: after reset() completes with no concurrent changes, the document
\* count equals the number of documents of the namespace and the ids of the
\* index are exactly those documents, whatever the index held before.
C20_ResetIndexesExactlyTheDocuments ==
  ResetCompletedAlone =>
    /\ size(index) = Cardinality(NamespaceDocuments(disk))
    /\ DOMAIN index = NamespaceDocuments(disk)

\* What reset() does reach: one entry for every file that readTree returns.
ResetIndexesEveryFile ==
  ResetCompletedAlone =>
    /\ size(index) = Cardinality(readTree(disk))
    /\ DOMAIN index = readTree(disk)

\* reset() has settled, fulfilled or rejected.
ResetSettled == resetting.phase \in {"done", "rejected"}

\* C21: when the read or the decoding of one document fails during a
\* rebuild, that document is skipped: the rebuild is fulfilled and its final
\* save is made, and no error reaches the caller of reset().
C21_FailedDocumentIsSkipped ==
  (ResetSettled /\ \E f \in failed : f.by = ByReset) =>
    /\ resetting.phase = "done"
    /\ snapshot = index

\* C24: the backing file of the pin store is never an entry of the search
\* index, after a rebuild as after change events.
C24_PersistedFilesAreNotIndexed ==
  \A id \in DOMAIN index : id # storeUri.path

----------------------------------------------------------------------------
(* Claims about the load of the Search Index, checked under SpecLoad *)

\* C22: when the snapshot is missing or corrupt, load() is not rejected: one
\* load error is notified, a rebuild is started and one warning is shown;
\* and once that rebuild has completed, with no change made meanwhile, the
\* index holds exactly the documents of the namespace.
C22_LoadErrorRebuildsTheIndex ==
  /\ (indexLoad.file # "valid" /\ indexLoad.phase # "pending") =>
       /\ indexLoad.phase = "failed"
       /\ indexLoad.errors = 1 /\ indexLoad.warned = 1
       /\ resetting.phase # "idle"
  /\ (indexLoad.phase = "failed" /\ ResetCompletedAlone) =>
       DOMAIN index = NamespaceDocuments(disk)

\* What the rebuild after a load error does reach: every file of the
\* namespace is indexed.
LoadErrorIndexesEveryFile ==
  /\ (indexLoad.file # "valid" /\ indexLoad.phase # "pending") =>
       /\ indexLoad.phase = "failed"
       /\ indexLoad.errors = 1 /\ indexLoad.warned = 1
       /\ resetting.phase # "idle"
  /\ (indexLoad.phase = "failed" /\ ResetCompletedAlone) =>
       DOMAIN index = readTree(disk)

----------------------------------------------------------------------------
(* Claims about a moved document, checked under SpecMove *)

----------------------------------------------------------------------------
(* Claims about the Pin Store, checked under SpecPins *)

\* C25: until the load made by the constructor has completed, isPinned
\* returns false for every uri.
C25_NothingPinnedUntilLoaded ==
  pinLoad = "pending" => \A uri \in StoreUris : ~isPinned(pinned, uri)

\* C26: a pin of a pinned uri, or an unpin of a uri that is not pinned, leaves
\* the store unchanged and fires no change event.
C26_NoChangeNoNotification ==
  [][ (ops' # ops /\ pinned' = pinned) => pinLog' = pinLog ]_vars

\* The uri strings that the events of a batch name.
Named(batch) == {toString(batch.events[i].uri) : i \in DOMAIN batch.events}

\* The places of the log where onDidLoad was fired.
LoadSignals(log) == {i \in DOMAIN log : log[i] = DidLoad}

\* C27: each pin or unpin that changes the store fires one batch with one
\* event, naming the uri and its new state; when the load completes one
\* batch is fired that names every uri of the store once, each as pinned,
\* and onDidLoad is fired after it; onDidLoad is fired once and only then.
C27_OneNotificationPerChangeAndOneLoadBatch ==
  [][ /\ (ops' # ops /\ pinned' # pinned) =>
           /\ Len(pinLog') = Len(pinLog) + 1
           /\ pinLog'[Len(pinLog')].kind = "onDidChangeState"
           /\ Len(pinLog'[Len(pinLog')].events) = 1
           /\ LET e == pinLog'[Len(pinLog')].events[1]
              IN /\ {toString(e.uri)} = (pinned' \ pinned) \cup (pinned \ pinned')
                 /\ e.isPinned = (toString(e.uri) \in pinned')
      /\ (pinLoad = "pending" /\ pinLoad' = Loaded) =>
           /\ Len(pinLog') = Len(pinLog) + 2
           /\ SubSeq(pinLog', 1, Len(pinLog)) = pinLog
           /\ pinLog'[Len(pinLog') - 1].kind = "onDidChangeState"
           /\ Named(pinLog'[Len(pinLog') - 1]) = pinned'
           /\ Len(pinLog'[Len(pinLog') - 1].events) = Cardinality(pinned')
           /\ \A i \in DOMAIN pinLog'[Len(pinLog') - 1].events :
                pinLog'[Len(pinLog') - 1].events[i].isPinned
           /\ pinLog'[Len(pinLog')] = DidLoad
      /\ Cardinality(LoadSignals(pinLog')) = (IF pinLoad' = Loaded THEN 1 ELSE 0)
    ]_vars

\* b was pinned before the load, the load added a from the backing file and
\* fired one batch with both, then onDidLoad, and a was unpinned after it.
C27_Witness ==
  /\ pinLoad = Loaded
  /\ Len(pinLog) = 4
  /\ pinLog[1] = ChangeState(<<PinStateChangeEvent(MkUri(SCHEME, <<"b">>), TRUE)>>)
  /\ Len(pinLog[2].events) = 2
  /\ pinLog[3] = DidLoad
  /\ pinLog[4] = ChangeState(<<PinStateChangeEvent(MkUri(SCHEME, <<"a">>), FALSE)>>)

\* C28: when the backing file is not there at construction the store falls
\* back to an empty set: the load completes and is signalled, so that the
\* saves of later pin and unpin calls are made.
C28_MissingFileFallsBack ==
  pinLoad # "pending" =>
    /\ pinLoad = Loaded
    /\ LoadSignals(pinLog) # {}

\* The lines of the backing file that are not empty.
StoredLines ==
  SelectSeq(readLines(storeFile), LAMBDA line : Len(line) > 0)

\* C29: once every save that was asked for has written, the backing file
\* holds exactly the uris of the store, one per line, in whatever order the
\* writes of overlapping saves completed.
C29_FileHoldsTheStoreAfterSaves ==
  (pinLoad = Loaded /\ ops > 0 /\ pinSaves = << >>) =>
    /\ {StoredLines[i] : i \in DOMAIN StoredLines} = pinned
    /\ Len(StoredLines) = Cardinality(pinned)

----------------------------------------------------------------------------
(* The delete command: a folder that is not empty *)

\* The delete command up to the answer of the first, non-recursive delete:
\* an error that is not "not empty" is reported with a warning, and a folder
\* that is not empty opens the confirmation prompt.
deleteCommand(c) ==
  /\ CanStart(c)
  /\ \E uri \in FsUris :
       LET call == NewCall("deleteCommand", uri, uri, FALSE, FALSE)
           fsUri == toFilesystemUri(ScratchDir, uri)
           phys == fsUri.path
       IN IF fsUri.error
          THEN /\ calls' = [calls EXCEPT
                              ![c] = Finish([call EXCEPT !.event = "warn"], InvalidScheme)]
               /\ UNCHANGED disk
          ELSE IF hostDelete(disk, phys, FALSE).result = "NotEmpty"
          THEN /\ calls' = [calls EXCEPT
                              ![c] = [call EXCEPT !.phys = {phys}, !.pc = "confirm"]]
               /\ UNCHANGED disk
          ELSE IF hostDelete(disk, phys, FALSE).result # "ok"
          THEN /\ calls' = [calls EXCEPT
                              ![c] = Finish([call EXCEPT !.phys = {phys}, !.event = "warn"],
                                            hostDelete(disk, phys, FALSE).result)]
               /\ UNCHANGED disk
          ELSE /\ disk' = hostDelete(disk, phys, FALSE).disk
               /\ calls' = [calls EXCEPT
                              ![c] = Finish([call EXCEPT !.phys = {phys}, !.wrote = TRUE],
                                            "ok")]
  /\ UNCHANGED <<delivered, fsRest>>

\* The prompt is answered: "Yes" repeats the delete with recursive: true, a
\* dismissed prompt rejects with UserCancelled, which the command swallows.
confirmSettles(c) ==
  /\ calls[c].pc = "confirm"
  /\ \E yes \in BOOLEAN :
       LET call == calls[c]
           phys == CHOOSE p \in call.phys : TRUE
       IN IF ~yes
          THEN /\ calls' = [calls EXCEPT ![c] = Finish(call, "UserCancelled")]
               /\ UNCHANGED disk
          ELSE IF hostDelete(disk, phys, TRUE).result # "ok"
          THEN /\ calls' = [calls EXCEPT
                              ![c] = Finish([call EXCEPT !.overwrite = TRUE,
                                                         !.event = "warn"],
                                            hostDelete(disk, phys, TRUE).result)]
               /\ UNCHANGED disk
          ELSE /\ disk' = hostDelete(disk, phys, TRUE).disk
               /\ calls' = [calls EXCEPT
                              ![c] = Finish([call EXCEPT !.overwrite = TRUE,
                                                         !.wrote = TRUE], "ok")]
  /\ UNCHANGED <<delivered, fsRest>>

InitDelete ==
  /\ disk \in {WriteDisk(EmptyDisk, ScratchDir \o <<"a", "x">>, 0),
               MkdirP(EmptyDisk, ScratchDir \o <<"a">>),
               WriteDisk(EmptyDisk, ScratchDir \o <<"a">>, 0)}
  /\ calls = [c \in CallIds |-> IdleCall]
  /\ delivered = << >>
  /\ ops = 0
  /\ IdleLoad
  /\ IdleWatch /\ IdleTree /\ IdleIndex

NextDelete ==
  \/ \E c \in CallIds : delete(c)
  \/ \E c \in CallIds : deleteCommand(c)
  \/ \E c \in CallIds : confirmSettles(c)

SpecDelete == InitDelete /\ [][NextDelete]_vars

\* The entries that exist before a step and not after it.
Removed == {p \in DOMAIN disk : p \notin DOMAIN disk'}

NonEmptyFolder(d, p) == isDir(d, p) /\ ChildrenOf(d, p) # {}

\* The call whose step this is ran the host's delete with recursive: true: a
\* gateway delete called with it, or the command after the user's "Yes".
RecursiveStep(c) ==
  /\ calls'[c] # calls[c]
  /\ calls'[c].overwrite
  /\ calls'[c].result = "ok"
  /\ IF calls'[c].op = "deleteCommand" THEN calls[c].pc = "confirm"
     ELSE calls'[c].op = "delete"

\* C31: a folder that is not empty is removed only by a delete with
\* recursive: true; a delete without it fails with NotEmpty and removes
\* nothing, the command asks before it retries with recursive: true, and a
\* declined prompt removes nothing.
C31_NonEmptyFolderNeedsRecursive ==
  [][/\ (\E p \in Removed : NonEmptyFolder(disk, p))
          => \E c \in CallIds : RecursiveStep(c)
     /\ \A c \in CallIds :
          /\ calls'[c] # calls[c] /\ calls'[c].result \in {"NotEmpty", "UserCancelled"}
               => disk' = disk
          /\ calls'[c] # calls[c] /\ calls'[c].op = "delete" /\ ~calls'[c].overwrite
             /\ (\E p \in calls'[c].phys : NonEmptyFolder(disk, p))
               => calls'[c].result = "NotEmpty"]_vars

C31_Witness ==
  /\ calls[1].op = "delete" /\ ~calls[1].overwrite /\ calls[1].result = "NotEmpty"
  /\ calls[2].op = "deleteCommand" /\ calls[2].overwrite /\ calls[2].result = "ok"
  /\ ~Exists(disk, ScratchDir \o <<"a">>)

----------------------------------------------------------------------------
(* batch(): calls of batched and of cancel, with fn recording its batches *)

\* The items of the call logged as notes[n]: the k-th item is <<n, k>>.
Input(n, count) == [k \in 1..count |-> <<n, k>>]

\* batched(input) with one or two items.
batchedCall ==
  /\ ops < MaxOps
  /\ \E count \in 1..MaxBatch :
       LET b == batched(items, Input(Len(notes) + 1, count), now)
       IN /\ notes' = Append(notes, Note("batched", Null))
          /\ items' = b.items
          /\ timeoutId' = b.timeoutId
  /\ ops' = ops + 1
  /\ UNCHANGED <<loadVars, disk, calls, delivered, pendingStat, watching, now,
                 treeVars, indexVars, queue>>

\* batched.cancel()
cancelCall ==
  /\ ops < MaxOps
  /\ notes' = Append(notes, Note("cancel", Null))
  /\ items' = cancel.items
  /\ timeoutId' = cancel.timeoutId
  /\ ops' = ops + 1
  /\ UNCHANGED <<loadVars, disk, calls, delivered, pendingStat, watching, now,
                 treeVars, indexVars, queue>>

InitBatch ==
  /\ disk = EmptyDisk
  /\ calls = [c \in CallIds |-> IdleCall]
  /\ delivered = << >>
  /\ ops = 0
  /\ IdleLoad
  /\ IdleWatch /\ IdleTree /\ IdleIndex

NextBatch ==
  \/ batchedCall
  \/ cancelCall
  \/ timeoutExpires
  \/ tick

SpecBatch == InitBatch /\ [][NextBatch]_vars

RECURSIVE Flat(_)
Flat(batches) ==
  IF batches = << >> THEN << >> ELSE Head(batches) \o Flat(Tail(batches))

Earlier(i, j) == i[1] < j[1] \/ (i[1] = j[1] /\ i[2] < j[2])

Increasing(seq) == \A a \in DOMAIN seq, b \in DOMAIN seq : a < b => Earlier(seq[a], seq[b])

CancelledAfter(n) == \E m \in DOMAIN notes : m > n /\ notes[m].event = "cancel"

LastCall == CHOOSE n \in DOMAIN notes :
              /\ notes[n].event = "batched"
              /\ \A m \in DOMAIN notes : notes[m].event = "batched" => m <= n

\* The items are handed to fn, and buffered, in the order of arrival and at
\* most once; an item is buffered only while no cancel followed its call, and
\* is missing from both only when a cancel did.
BatchKeepsItems ==
  /\ Increasing(Flat(delivered) \o items)
  /\ \A i \in DOMAIN items : ~CancelledAfter(items[i][1])
  /\ \A n \in DOMAIN notes :
       notes[n].event = "batched" /\ ~CancelledAfter(n)
         => \E i \in DOMAIN (Flat(delivered) \o items) :
              (Flat(delivered) \o items)[i] = <<n, 1>>
  /\ items # << >> => timeoutId.armed

\* fn is called once with everything buffered, one delay or more after the
\* last call of batched, and the buffer is empty after it.
BatchDeliversAtExpiry ==
  delivered' # delivered
    => /\ items # << >>
       /\ delivered' = Append(delivered, items)
       /\ items' = << >>
       /\ now >= notes[LastCall].at + Delay

\* C32: batch(fn, delay) accumulates the items of successive calls, restarts
\* the deadline on every call, hands everything accumulated to fn in one call
\* when the deadline expires, in arrival order and each item once; after
\* cancel() nothing buffered before it is delivered.
C32_BatchDeliversOnceInOrder ==
  []BatchKeepsItems /\ [][BatchDeliversAtExpiry]_vars

C32_Witness ==
  /\ Len(delivered) = 1 /\ Len(delivered[1]) = 2
  /\ delivered[1][1][1] # delivered[1][2][1]
  /\ \E m \in DOMAIN notes : notes[m].event = "cancel"

----------------------------------------------------------------------------
(* Claims about folders that are not loaded, checked under SpecTree *)

\* What getChildren(folder) returns for a folder whose map is defined: the
\* names of the map.
ChildNames(folder) == {n.name : n \in {m \in nodes : m.parent = folder}}

ListedNames(d, folder) ==
  {Listing(d, folder)[i].name : i \in DOMAIN Listing(d, folder)}

----------------------------------------------------------------------------
(* Claims about events handled during the load, checked under SpecLoad *)

\* C34: a change event handled before the initial load() has completed is
\* not lost: once the load has completed and the work of every event, each
\* awaited before the next, is done, the index reflects the last event of
\* every identifier.
C34_EventDuringLoadIsKept ==
  (indexLoad.phase = Loaded /\ AwaitedAndDone) =>
    \A id \in DOMAIN lastEvent :
      IF lastEvent[id].type = Deleted
      THEN id \notin DOMAIN index
      ELSE id \in DOMAIN index /\ index[id] = lastEvent[id].by[2]

----------------------------------------------------------------------------
(* Claims about overlapping exclusive writes, checked under SpecFs *)

\* A writeFile call with {create: true, overwrite: false} that has settled.
ExclusiveCreate(c) ==
  /\ calls[c].op = "writeFile" /\ calls[c].create /\ ~calls[c].overwrite
  /\ calls[c].pc = "done" /\ calls[c].phys # {}

\* C35: of two overlapping writeFile calls on the same absent identifier,
\* both with {create: true, overwrite: false}, at most one succeeds; the
\* other fails with FileExists and leaves the content of the first.
C35_OneExclusiveCreateWins ==
  \A c1 \in CallIds, c2 \in CallIds :
    (c1 # c2 /\ ExclusiveCreate(c1) /\ ExclusiveCreate(c2)
       /\ calls[c1].phys = calls[c2].phys
       /\ c1 \notin calls[c2].after /\ c2 \notin calls[c1].after)
      => ~(calls[c1].result = "ok" /\ calls[c2].result = "ok")

\* No event for the uri path is waiting to be handled.
NoEventPending(path) ==
  \A b \in DOMAIN queue : \A k \in DOMAIN queue[b] : queue[b][k].uri.path # path

\* The entry was listed by the load l, has been deleted since, and its
\* Deleted event has been handled.
DeletedDuringLoad(l, name) ==
  /\ \E i \in DOMAIN l.listing : l.listing[i].name = name
  /\ ~Exists(disk, Phys(l.folder \o <<name>>))
  /\ NoEventPending(l.folder \o <<name>>)

\* C36: when the Deleted event of X is handled while the first listing of the
\* parent folder of X is in flight, X is not among the children of the folder
\* once the load has completed.
C36_DeletedDuringLoadStaysAway ==
  [][\A l \in loading : \A name \in TreeFiles :
       (l \notin loading' /\ Len(name) = 1 /\ DeletedDuringLoad(l, name[1]))
         => ~\E n \in nodes' : n.parent = l.folder /\ n.name = name[1]]_vars

----------------------------------------------------------------------------
(* Claims about pins made during the load, checked under SpecPins *)

\* The places of the log where pin(uri) or unpin(uri) fired its event.
CallsFor(log, uri) ==
  {i \in DOMAIN log : /\ log[i].kind = "onDidChangeState"
                      /\ Len(log[i].events) = 1
                      /\ log[i].events[1].uri = uri}

\* C37: a pin or unpin called before the initial load of the pin store has
\* completed is respected after it: when the load completes, an id whose last
\* call was unpin is not pinned and one whose last call was pin is pinned.
C37_CallsDuringLoadAreRespected ==
  [][(pinLoad = "pending" /\ pinLoad' = Loaded) =>
       \A uri \in StoreUris : \A i \in CallsFor(pinLog, uri) :
         (\A j \in CallsFor(pinLog, uri) : j <= i)
           => isPinned(pinned', uri) = pinLog[i].events[1].isPinned]_vars

----------------------------------------------------------------------------
(* Claims about the disposal of the watcher, checked under SpecWatch *)

\* C38: after the Disposable returned by watch() is disposed no further batch
\* is delivered, also not for a native notification whose stat lookup was
\* still in flight at disposal.
C38_NothingDeliveredAfterDispose ==
  [][watching = "disposed" => delivered' = delivered]_vars

----------------------------------------------------------------------------
(* Search Index: a folder is moved or deleted with its documents *)

FolderFrom == <<"dir1">>
FolderTo == <<"dir3">>

\* The documents below a folder.
DocumentsUnder(d, folder) ==
  {id \in Documents(d) : IsPrefix(folder, id) /\ id # folder}

\* The folder is renamed at the host.  The rename is one operation on the
\* folder: the events name the old and the new path of the folder and none of
\* the documents in it.
indexedMoveFolder ==
  /\ ops < MaxOps
  /\ \E from, to \in {FolderFrom, FolderTo} :
       /\ isDir(disk, Phys(from))
       /\ ~Exists(disk, Phys(to))
       /\ disk' = MoveTree(disk, Phys(from), Phys(to))
       /\ LET gone == Event(Deleted, MkUri(SCHEME, from), ByOp(ops + 1))
              there == Event(Created, MkUri(SCHEME, to), ByOp(ops + 1))
          IN queue' \in {Append(queue, <<gone, there>>), Append(queue, <<there, gone>>),
                         queue \o <<<<gone>>, <<there>>>>, queue \o <<<<there>>, <<gone>>>>}
  /\ ops' = ops + 1
  /\ awaited' = (awaited /\ queue = << >> /\ inflight = {})
  /\ UNCHANGED <<loadVars, calls, delivered, watchVars, treeVars, index, inflight,
                 lastEvent, snapshot, indexRest>>

\* The folder is deleted with recursive: true.  The Deleted event of the
\* folder is fired; whether one is fired for each document in it as well
\* depends on what the host reports.
indexedDeleteFolder ==
  /\ ops < MaxOps
  /\ \E folder \in {FolderFrom, FolderTo} :
       /\ isDir(disk, Phys(folder))
       /\ disk' = RemoveTree(disk, Phys(folder))
       /\ LET gone == Event(Deleted, MkUri(SCHEME, folder), ByOp(ops + 1))
              docs == SetToSeq(DocumentsUnder(disk, folder))
              each == [i \in DOMAIN docs |->
                         Event(Deleted, MkUri(SCHEME, docs[i]), ByOp(ops + 1))]
          IN queue' \in {Append(queue, <<gone>>), Append(queue, Append(each, gone))}
  /\ ops' = ops + 1
  /\ awaited' = (awaited /\ queue = << >> /\ inflight = {})
  /\ UNCHANGED <<loadVars, calls, delivered, watchVars, treeVars, index, inflight,
                 lastEvent, snapshot, indexRest>>

NextFolder ==
  \/ indexedMoveFolder
  \/ indexedDeleteFolder
  \/ indexedWrite
  \/ indexedDelete
  \/ indexHandlesBatch
  \/ hostReads
  \/ readSettles

SpecFolder == InitMove /\ [][NextFolder]_vars

\* C39: after a folder has been deleted recursively or moved and the events
\* of that are handled, the index holds no entry for a document under the old
\* path of the folder.
C39_NoEntryUnderRemovedFolder ==
  \A folder \in {FolderFrom, FolderTo} :
    (queue = << >> /\ inflight = {} /\ ~Exists(disk, Phys(folder)))
      => \A id \in DOMAIN index : ~IsPrefix(folder, id)

----------------------------------------------------------------------------
(* Claims about the pin flags of the tree, checked under SpecTree *)

\* C40: once the pin store has loaded and every pin and file change event is
\* handled, the isPinned flag of every document node of the tree equals
\* PinStore.isPinned of its id, at any depth.
C40_PinFlagsFollowTheStore ==
  (pinLoad = Loaded /\ queue = << >> /\ loading = {})
    => \A n \in nodes :
         n.type = File => n.isPinned = isPinned(pinned, n.uri)

============================================================================
